---- MODULE Spec2Model ----
(***************************************************************************)
(* The v0 MCP server: a Cloudflare Worker that exposes the v0 Platform API *)
(* as MCP tools.  The repository holds two variants of the server:         *)
(*   v1  src/src/index.ts              custom client, key from env         *)
(*   v2  src/README.md, lines 298-2099 official SDK, key from "?key="      *)
(* Both are modelled.  A behaviour is one deployment of one variant.       *)
(***************************************************************************)
EXTENDS Integers, Sequences, FiniteSets, Bags, TLC

(* Bounds of the model. *)
MaxInFlight == 2
MaxItems == 2

(***************************************************************************)
(* JavaScript values.  Every value carries its type, so that truthiness,   *)
(* template-literal conversion and JSON.stringify act as they do in JS.    *)
(***************************************************************************)
Undef == [t |-> "undefined"]
Null == [t |-> "null"]
Str(s) == [t |-> "string", s |-> s]
Num(n) == [t |-> "number", n |-> n]
Bool(b) == [t |-> "boolean", b |-> b]
Obj(f) == [t |-> "object", o |-> f]
Arr(a) == [t |-> "array", a |-> a]
NoFields == [k \in {} |-> Undef]

(* ToBoolean: the test of `x ? a : b`, `x || y`, `!x`. *)
Truthy(v) ==
  CASE v.t = "undefined" -> FALSE
    [] v.t = "null" -> FALSE
    [] v.t = "string" -> v.s # ""
    [] v.t = "number" -> v.n # 0
    [] v.t = "boolean" -> v.b
    [] OTHER -> TRUE

Nullish(v) == v.t \in {"undefined", "null"}

(* obj.key on a non-nullish value: undefined when the key is missing. *)
Get(v, k) ==
  IF v.t = "object" /\ k \in DOMAIN v.o THEN v.o[k] ELSE Undef

(* a || b and a ?? b *)
OrElse(a, b) == IF Truthy(a) THEN a ELSE b
Coalesce(a, b) == IF Nullish(a) THEN b ELSE a

(* A text is a sequence of string pieces; the text is their concatenation. *)
RECURSIVE Join(_, _)
Join(texts, sep) ==
  IF Len(texts) = 0 THEN <<>>
  ELSE IF Len(texts) = 1 THEN texts[1]
  ELSE texts[1] \o <<sep>> \o Join(Tail(texts), sep)

(* String(v), and `${v}` in a template literal. *)
RECURSIVE ToStr(_)
ToStr(v) ==
  CASE v.t = "undefined" -> <<"undefined">>
    [] v.t = "null" -> <<"null">>
    [] v.t = "string" -> <<v.s>>
    [] v.t = "number" -> <<ToString(v.n)>>
    [] v.t = "boolean" -> IF v.b THEN <<"true">> ELSE <<"false">>
    [] v.t = "array" ->
         Join([i \in 1..Len(v.a) |->
                 IF Nullish(v.a[i]) THEN <<>> ELSE ToStr(v.a[i])], ",")
    [] OTHER -> <<"[object Object]">>

Contains(text, part) ==
  \E i \in 1..(Len(text) - Len(part) + 1) :
     SubSeq(text, i, i + Len(part) - 1) = part

StartsWith(text, part) ==
  Len(part) <= Len(text) /\ SubSeq(text, 1, Len(part)) = part

(* The keys of the model's objects, in the order JSON.stringify meets them. *)
KeyOrder ==
  << "id", "url", "name", "email", "plan", "message", "attachments", "system",
     "chatPrivacy", "projectId", "modelConfiguration", "modelId",
     "imageGenerations", "description", "icon", "environmentVariables",
     "instructions", "chatId", "data", "limit", "offset", "isFavorite",
     "scope" >>

OrderedKeys(f) == SelectSeq(KeyOrder, LAMBDA k : k \in DOMAIN f)

(* JSON.stringify followed by the peer's JSON.parse: the document that is  *)
(* sent.  A key whose value is undefined is dropped; undefined in an array  *)
(* becomes null.                                                            *)
RECURSIVE JsonDocument(_)
JsonDocument(v) ==
  CASE v.t = "object" ->
         Obj([k \in {x \in DOMAIN v.o : v.o[x].t # "undefined"} |->
                JsonDocument(v.o[k])])
    [] v.t = "array" ->
         Arr([i \in 1..Len(v.a) |->
                IF v.a[i].t = "undefined" THEN Null ELSE JsonDocument(v.a[i])])
    [] OTHER -> v

(* JSON.stringify(v, null, 2) as text (line breaks and indentation left out). *)
RECURSIVE JsonText(_)
JsonText(v) ==
  CASE v.t = "undefined" -> <<"undefined">>
    [] v.t = "string" -> <<"\"", v.s, "\"">>
    [] v.t = "object" ->
         LET ks == OrderedKeys(JsonDocument(v).o)
         IN  <<"{">> \o
             Join([i \in 1..Len(ks) |->
                     <<"\"", ks[i], "\": ">> \o JsonText(v.o[ks[i]])], ",") \o
             <<"}">>
    [] v.t = "array" ->
         <<"[">> \o
         Join([i \in 1..Len(v.a) |->
                 IF v.a[i].t = "undefined" THEN <<"null">> ELSE JsonText(v.a[i])],
              ",") \o
         <<"]">>
    [] OTHER -> ToStr(v)

(***************************************************************************)
(* The tools MyMCP.init registers, in registration order: name,            *)
(* description, parameter schema (zod), the client method the handler      *)
(* awaits and the phrase its catch block puts before the error message.    *)
(***************************************************************************)
V1Tools ==
  << [name |-> "create_chat",
       description |-> "Create a new AI-powered chat session. Use this to start a new conversation with the v0 platform, optionally providing a system prompt, privacy setting, and model configuration.",
       method |-> "chats.create",
       errorPhrase |-> "Error creating chat: ",
       schema |->
         ("message" :> [type |-> "string", optional |-> FALSE, elem |-> "", values |-> {}]) @@
         ("system" :> [type |-> "string", optional |-> TRUE, elem |-> "", values |-> {}]) @@
         ("chatPrivacy" :> [type |-> "enum", optional |-> TRUE, elem |-> "", values |-> {"private", "public"}]) @@
         ("modelId" :> [type |-> "enum", optional |-> TRUE, elem |-> "", values |-> {"v0-1.5-sm", "v0-1.5-md", "v0-1.5-lg"}]) @@
         ("imageGenerations" :> [type |-> "boolean", optional |-> TRUE, elem |-> "", values |-> {}])],
     [name |-> "get_chat",
       description |-> "Retrieve details for a specific chat session by its ID. Use this to get information or the URL for an existing chat.",
       method |-> "chats.getById",
       errorPhrase |-> "Error retrieving chat: ",
       schema |->
         ("chatId" :> [type |-> "string", optional |-> FALSE, elem |-> "", values |-> {}])],
     [name |-> "add_message",
       description |-> "Add a new message to an existing chat session. Use this to continue a conversation or provide additional instructions to the AI.",
       method |-> "chats.createMessage",
       errorPhrase |-> "Error adding message: ",
       schema |->
         ("chatId" :> [type |-> "string", optional |-> FALSE, elem |-> "", values |-> {}]) @@
         ("message" :> [type |-> "string", optional |-> FALSE, elem |-> "", values |-> {}])],
     [name |-> "find_chats",
       description |-> "List existing chat sessions. Use this to browse your chat history, with optional pagination.",
       method |-> "chats.find",
       errorPhrase |-> "Error finding chats: ",
       schema |->
         ("limit" :> [type |-> "number", optional |-> TRUE, elem |-> "", values |-> {}]) @@
         ("offset" :> [type |-> "number", optional |-> TRUE, elem |-> "", values |-> {}])],
     [name |-> "create_project",
       description |-> "Create a new project on the v0 platform. Use this to organize related chats, files, and deployments under a single project.",
       method |-> "projects.create",
       errorPhrase |-> "Error creating project: ",
       schema |->
         ("name" :> [type |-> "string", optional |-> FALSE, elem |-> "", values |-> {}]) @@
         ("description" :> [type |-> "string", optional |-> TRUE, elem |-> "", values |-> {}])],
     [name |-> "find_projects",
       description |-> "List your v0 projects. Use this to browse and manage your projects, with optional pagination.",
       method |-> "projects.find",
       errorPhrase |-> "Error finding projects: ",
       schema |->
         ("limit" :> [type |-> "number", optional |-> TRUE, elem |-> "", values |-> {}]) @@
         ("offset" :> [type |-> "number", optional |-> TRUE, elem |-> "", values |-> {}])],
     [name |-> "get_user_info",
       description |-> "Retrieve information about the current user, such as user ID, email, and name.",
       method |-> "user.get",
       errorPhrase |-> "Error getting user info: ",
       schema |-> NoFields],
     [name |-> "get_user_plan",
       description |-> "Get the current user's plan and billing details. Use this to check your subscription and usage limits.",
       method |-> "user.getPlan",
       errorPhrase |-> "Error getting user plan: ",
       schema |-> NoFields],
     [name |-> "check_rate_limits",
       description |-> "Check your current API rate limits and usage. Use this to monitor your quota and avoid hitting rate limits.",
       method |-> "rateLimits.find",
       errorPhrase |-> "Error checking rate limits: ",
       schema |-> NoFields],
     [name |-> "delete_chat",
       description |-> "Delete a chat session by its ID. Use this to remove a chat and its associated data from your account.",
       method |-> "chats.delete",
       errorPhrase |-> "Error deleting chat: ",
       schema |->
         ("chatId" :> [type |-> "string", optional |-> FALSE, elem |-> "", values |-> {}])] >>

V2Tools ==
  << [name |-> "create_chat",
       description |-> "Create a new AI-powered chat session. Use this to start a new conversation with the v0 platform, optionally providing a system prompt, privacy setting, and model configuration.",
       method |-> "chats.create",
       errorPhrase |-> "Error creating chat: ",
       schema |->
         ("message" :> [type |-> "string", optional |-> FALSE, elem |-> "", values |-> {}]) @@
         ("system" :> [type |-> "string", optional |-> TRUE, elem |-> "", values |-> {}]) @@
         ("chatPrivacy" :> [type |-> "enum", optional |-> TRUE, elem |-> "", values |-> {"private", "public"}]) @@
         ("projectId" :> [type |-> "string", optional |-> TRUE, elem |-> "", values |-> {}]) @@
         ("modelId" :> [type |-> "enum", optional |-> TRUE, elem |-> "", values |-> {"v0-1.5-sm", "v0-1.5-md", "v0-1.5-lg"}]) @@
         ("imageGenerations" :> [type |-> "boolean", optional |-> TRUE, elem |-> "", values |-> {}]) @@
         ("attachments" :> [type |-> "array", optional |-> TRUE, elem |-> "object", values |-> {}])],
     [name |-> "find_chats",
       description |-> "List existing chat sessions. Use this to browse your chat history, with optional pagination and filtering.",
       method |-> "chats.find",
       errorPhrase |-> "Error finding chats: ",
       schema |->
         ("limit" :> [type |-> "string", optional |-> TRUE, elem |-> "", values |-> {}]) @@
         ("offset" :> [type |-> "string", optional |-> TRUE, elem |-> "", values |-> {}]) @@
         ("isFavorite" :> [type |-> "string", optional |-> TRUE, elem |-> "", values |-> {}])],
     [name |-> "initialize_chat",
       description |-> "Initialize a new chat from a zip source. Enables context-rich conversations based on code or assets.",
       method |-> "chats.init",
       errorPhrase |-> "Error initializing chat: ",
       schema |->
         ("zipUrl" :> [type |-> "string", optional |-> FALSE, elem |-> "", values |-> {}]) @@
         ("name" :> [type |-> "string", optional |-> TRUE, elem |-> "", values |-> {}]) @@
         ("projectId" :> [type |-> "string", optional |-> TRUE, elem |-> "", values |-> {}]) @@
         ("lockAllFiles" :> [type |-> "boolean", optional |-> TRUE, elem |-> "", values |-> {}])],
     [name |-> "get_chat",
       description |-> "Retrieve details for a specific chat session by its ID. Use this to get information or the URL for an existing chat.",
       method |-> "chats.getById",
       errorPhrase |-> "Error retrieving chat: ",
       schema |->
         ("chatId" :> [type |-> "string", optional |-> FALSE, elem |-> "", values |-> {}])],
     [name |-> "update_chat",
       description |-> "Update the metadata of an existing chat using its chatId. Supports changes to the chat name and privacy setting.",
       method |-> "chats.update",
       errorPhrase |-> "Error updating chat: ",
       schema |->
         ("chatId" :> [type |-> "string", optional |-> FALSE, elem |-> "", values |-> {}]) @@
         ("name" :> [type |-> "string", optional |-> TRUE, elem |-> "", values |-> {}])],
     [name |-> "favorite_chat",
       description |-> "Mark or unmark a chat as a favorite using its chatId. This helps with organizing and quickly accessing important chats.",
       method |-> "chats.favorite",
       errorPhrase |-> "Error updating favorite status: ",
       schema |->
         ("chatId" :> [type |-> "string", optional |-> FALSE, elem |-> "", values |-> {}]) @@
         ("isFavorite" :> [type |-> "boolean", optional |-> FALSE, elem |-> "", values |-> {}])],
     [name |-> "fork_chat",
       description |-> "Create a new chat fork from a specific version within an existing chat. Useful for branching off alternate directions without modifying the original conversation.",
       method |-> "chats.fork",
       errorPhrase |-> "Error forking chat: ",
       schema |->
         ("chatId" :> [type |-> "string", optional |-> FALSE, elem |-> "", values |-> {}]) @@
         ("versionId" :> [type |-> "string", optional |-> FALSE, elem |-> "", values |-> {}])],
     [name |-> "send_message",
       description |-> "Create a new message in an existing chat. Triggers a model response using the provided prompt, with optional attachments and configuration settings.",
       method |-> "chats.sendMessage",
       errorPhrase |-> "Error sending message: ",
       schema |->
         ("chatId" :> [type |-> "string", optional |-> FALSE, elem |-> "", values |-> {}]) @@
         ("message" :> [type |-> "string", optional |-> FALSE, elem |-> "", values |-> {}]) @@
         ("attachments" :> [type |-> "array", optional |-> TRUE, elem |-> "object", values |-> {}]) @@
         ("modelConfiguration" :> [type |-> "object", optional |-> TRUE, elem |-> "", values |-> {"v0-1.5-sm", "v0-1.5-md", "v0-1.5-lg"}])],
     [name |-> "find_chat_messages",
       description |-> "Retrieve a list of all messages for a specific chat, ordered by creation date (newest first). Supports cursor-based pagination.",
       method |-> "chats.findMessages",
       errorPhrase |-> "Error finding messages: ",
       schema |->
         ("chatId" :> [type |-> "string", optional |-> FALSE, elem |-> "", values |-> {}]) @@
         ("limit" :> [type |-> "string", optional |-> TRUE, elem |-> "", values |-> {}]) @@
         ("cursor" :> [type |-> "string", optional |-> TRUE, elem |-> "", values |-> {}])],
     [name |-> "get_chat_message",
       description |-> "Retrieve detailed information about a specific message within a chat, including content, files, model configuration, and demo URLs.",
       method |-> "chats.getMessage",
       errorPhrase |-> "Error getting message: ",
       schema |->
         ("chatId" :> [type |-> "string", optional |-> FALSE, elem |-> "", values |-> {}]) @@
         ("messageId" :> [type |-> "string", optional |-> FALSE, elem |-> "", values |-> {}])],
     [name |-> "find_chat_versions",
       description |-> "Retrieve a list of all versions (iterations) for a specific chat, ordered by creation date (newest first). Supports cursor-based pagination.",
       method |-> "chats.findVersions",
       errorPhrase |-> "Error finding versions: ",
       schema |->
         ("chatId" :> [type |-> "string", optional |-> FALSE, elem |-> "", values |-> {}]) @@
         ("limit" :> [type |-> "string", optional |-> TRUE, elem |-> "", values |-> {}]) @@
         ("cursor" :> [type |-> "string", optional |-> TRUE, elem |-> "", values |-> {}])],
     [name |-> "get_chat_version",
       description |-> "Retrieve detailed information about a specific version of a chat, including all files with their content and lock status.",
       method |-> "chats.getVersion",
       errorPhrase |-> "Error getting version: ",
       schema |->
         ("chatId" :> [type |-> "string", optional |-> FALSE, elem |-> "", values |-> {}]) @@
         ("versionId" :> [type |-> "string", optional |-> FALSE, elem |-> "", values |-> {}])],
     [name |-> "update_chat_version_files",
       description |-> "Update the source files of a specific chat version (block) manually. This allows editing generated files directly through the API.",
       method |-> "chats.updateVersion",
       errorPhrase |-> "Error updating version files: ",
       schema |->
         ("chatId" :> [type |-> "string", optional |-> FALSE, elem |-> "", values |-> {}]) @@
         ("versionId" :> [type |-> "string", optional |-> FALSE, elem |-> "", values |-> {}]) @@
         ("files" :> [type |-> "array", optional |-> FALSE, elem |-> "object", values |-> {}])],
     [name |-> "resume_message",
       description |-> "Resume processing of a previously interrupted or incomplete message in a chat. Useful for continuing generation when a message was paused or stopped.",
       method |-> "chats.resume",
       errorPhrase |-> "Error resuming message: ",
       schema |->
         ("chatId" :> [type |-> "string", optional |-> FALSE, elem |-> "", values |-> {}]) @@
         ("messageId" :> [type |-> "string", optional |-> FALSE, elem |-> "", values |-> {}])],
     [name |-> "delete_chat",
       description |-> "Delete a chat session by its ID. Use this to remove a chat and its associated data from your account. This operation is irreversible.",
       method |-> "chats.delete",
       errorPhrase |-> "Error deleting chat: ",
       schema |->
         ("chatId" :> [type |-> "string", optional |-> FALSE, elem |-> "", values |-> {}])],
     [name |-> "create_project",
       description |-> "Create a new project on the v0 platform. Use this to organize related chats, files, and deployments under a single project.",
       method |-> "projects.create",
       errorPhrase |-> "Error creating project: ",
       schema |->
         ("name" :> [type |-> "string", optional |-> FALSE, elem |-> "", values |-> {}]) @@
         ("description" :> [type |-> "string", optional |-> TRUE, elem |-> "", values |-> {}]) @@
         ("icon" :> [type |-> "string", optional |-> TRUE, elem |-> "", values |-> {}]) @@
         ("instructions" :> [type |-> "string", optional |-> TRUE, elem |-> "", values |-> {}])],
     [name |-> "find_projects",
       description |-> "List your v0 projects. Use this to browse and manage your projects, with optional pagination.",
       method |-> "projects.find",
       errorPhrase |-> "Error finding projects: ",
       schema |-> NoFields],
     [name |-> "get_project_by_id",
       description |-> "Retrieve the details of a specific v0 project by its ID.",
       method |-> "projects.getById",
       errorPhrase |-> "Error getting project: ",
       schema |->
         ("projectId" :> [type |-> "string", optional |-> FALSE, elem |-> "", values |-> {}])],
     [name |-> "get_project_by_chat_id",
       description |-> "Retrieve the v0 project associated with a given chat. Useful for determining the context or scope of a chat session.",
       method |-> "projects.getByChatId",
       errorPhrase |-> "Error getting project by chat ID: ",
       schema |->
         ("chatId" :> [type |-> "string", optional |-> FALSE, elem |-> "", values |-> {}])],
     [name |-> "update_project",
       description |-> "Update the metadata of an existing project using its projectId. Supports changes to the project name and privacy setting.",
       method |-> "projects.update",
       errorPhrase |-> "Error updating project: ",
       schema |->
         ("projectId" :> [type |-> "string", optional |-> FALSE, elem |-> "", values |-> {}]) @@
         ("name" :> [type |-> "string", optional |-> TRUE, elem |-> "", values |-> {}]) @@
         ("description" :> [type |-> "string", optional |-> TRUE, elem |-> "", values |-> {}]) @@
         ("instructions" :> [type |-> "string", optional |-> TRUE, elem |-> "", values |-> {}])],
     [name |-> "assign_project_to_chat",
       description |-> "Link an existing v0 project to a specific chat. Helps group conversations under a shared project context.",
       method |-> "projects.assign",
       errorPhrase |-> "Error assigning project to chat: ",
       schema |->
         ("chatId" :> [type |-> "string", optional |-> FALSE, elem |-> "", values |-> {}]) @@
         ("projectId" :> [type |-> "string", optional |-> FALSE, elem |-> "", values |-> {}])],
     [name |-> "find_deployments",
       description |-> "Find deployments by project and chat IDs. This will return a list of deployments for the given project and chat IDs.",
       method |-> "deployments.find",
       errorPhrase |-> "Error finding deployments: ",
       schema |->
         ("projectId" :> [type |-> "string", optional |-> FALSE, elem |-> "", values |-> {}]) @@
         ("chatId" :> [type |-> "string", optional |-> FALSE, elem |-> "", values |-> {}]) @@
         ("versionId" :> [type |-> "string", optional |-> FALSE, elem |-> "", values |-> {}])],
     [name |-> "create_deployment",
       description |-> "Create a new deployment for a specific chat and version. This will trigger a deployment to Vercel.",
       method |-> "deployments.create",
       errorPhrase |-> "Error creating deployment: ",
       schema |->
         ("chatId" :> [type |-> "string", optional |-> FALSE, elem |-> "", values |-> {}]) @@
         ("versionId" :> [type |-> "string", optional |-> FALSE, elem |-> "", values |-> {}]) @@
         ("projectId" :> [type |-> "string", optional |-> FALSE, elem |-> "", values |-> {}])],
     [name |-> "get_deployment",
       description |-> "Get a deployment by ID. This will return the details of the deployment, including the inspector URL, chat ID, project ID, version ID, API URL, and web URL.",
       method |-> "deployments.getById",
       errorPhrase |-> "Error getting deployment: ",
       schema |->
         ("deploymentId" :> [type |-> "string", optional |-> FALSE, elem |-> "", values |-> {}])],
     [name |-> "delete_deployment",
       description |-> "Delete a deployment by ID. This will delete the deployment from Vercel.",
       method |-> "deployments.delete",
       errorPhrase |-> "Error deleting deployment: ",
       schema |->
         ("deploymentId" :> [type |-> "string", optional |-> FALSE, elem |-> "", values |-> {}])],
     [name |-> "find_deployment_logs",
       description |-> "Retrieve logs for a specific deployment. Supports filtering by timestamp to fetch only recent logs.",
       method |-> "deployments.findLogs",
       errorPhrase |-> "Error finding deployment logs: ",
       schema |->
         ("deploymentId" :> [type |-> "string", optional |-> FALSE, elem |-> "", values |-> {}]) @@
         ("since" :> [type |-> "string", optional |-> TRUE, elem |-> "", values |-> {}])],
     [name |-> "find_deployment_errors",
       description |-> "Retrieve a list of errors that occurred during a specific deployment. Useful for diagnosing and debugging deployment issues.",
       method |-> "deployments.findErrors",
       errorPhrase |-> "Error finding deployment errors: ",
       schema |->
         ("deploymentId" :> [type |-> "string", optional |-> FALSE, elem |-> "", values |-> {}])],
     [name |-> "create_vercel_project",
       description |-> "Create a new Vercel project integration for deployments.",
       method |-> "integrations.vercel.projects.create",
       errorPhrase |-> "Error creating Vercel project: ",
       schema |->
         ("name" :> [type |-> "string", optional |-> FALSE, elem |-> "", values |-> {}]) @@
         ("projectId" :> [type |-> "string", optional |-> FALSE, elem |-> "", values |-> {}])],
     [name |-> "find_vercel_projects",
       description |-> "List existing Vercel project integrations.",
       method |-> "integrations.vercel.projects.find",
       errorPhrase |-> "Error finding Vercel projects: ",
       schema |-> NoFields],
     [name |-> "find_hooks",
       description |-> "Retrieve a list of existing hooks in your workspace. Useful for managing active webhooks tied to chat events or deployments.",
       method |-> "hooks.find",
       errorPhrase |-> "Error finding hooks: ",
       schema |-> NoFields],
     [name |-> "create_hook",
       description |-> "Create a new webhook that listens for specific events. Supports optional association with a chat or project.",
       method |-> "hooks.create",
       errorPhrase |-> "Error creating hook: ",
       schema |->
         ("name" :> [type |-> "string", optional |-> FALSE, elem |-> "", values |-> {}]) @@
         ("url" :> [type |-> "string", optional |-> FALSE, elem |-> "", values |-> {}]) @@
         ("events" :> [type |-> "array", optional |-> FALSE, elem |-> "enum", values |-> {"chat.created", "chat.updated", "chat.deleted", "message.created", "message.updated", "message.deleted", "project.created", "project.updated", "project.deleted"}]) @@
         ("chatId" :> [type |-> "string", optional |-> TRUE, elem |-> "", values |-> {}]) @@
         ("projectId" :> [type |-> "string", optional |-> TRUE, elem |-> "", values |-> {}])],
     [name |-> "get_hook",
       description |-> "Retrieve the details of a specific webhook using its ID.",
       method |-> "hooks.getById",
       errorPhrase |-> "Error getting hook: ",
       schema |->
         ("hookId" :> [type |-> "string", optional |-> FALSE, elem |-> "", values |-> {}])],
     [name |-> "update_hook",
       description |-> "Update the configuration of an existing webhook, including its name, event subscriptions, or target URL.",
       method |-> "hooks.update",
       errorPhrase |-> "Error updating hook: ",
       schema |->
         ("hookId" :> [type |-> "string", optional |-> FALSE, elem |-> "", values |-> {}]) @@
         ("name" :> [type |-> "string", optional |-> TRUE, elem |-> "", values |-> {}]) @@
         ("url" :> [type |-> "string", optional |-> TRUE, elem |-> "", values |-> {}]) @@
         ("events" :> [type |-> "array", optional |-> TRUE, elem |-> "enum", values |-> {"chat.created", "chat.updated", "chat.deleted", "message.created", "message.updated", "message.deleted", "project.created", "project.updated", "project.deleted"}])],
     [name |-> "delete_hook",
       description |-> "Delete a webhook based on its ID. This action is irreversible.",
       method |-> "hooks.delete",
       errorPhrase |-> "Error deleting hook: ",
       schema |->
         ("hookId" :> [type |-> "string", optional |-> FALSE, elem |-> "", values |-> {}])],
     [name |-> "get_user_info",
       description |-> "Retrieve information about the authenticated user, including their ID, name, email, and account metadata.",
       method |-> "user.get",
       errorPhrase |-> "Error getting user info: ",
       schema |-> NoFields],
     [name |-> "get_user_billing",
       description |-> "Fetch billing usage and quota information for the authenticated user. Can be scoped to a specific context (e.g. project or namespace).",
       method |-> "user.getBilling",
       errorPhrase |-> "Error getting billing info: ",
       schema |->
         ("scope" :> [type |-> "string", optional |-> TRUE, elem |-> "", values |-> {}])],
     [name |-> "get_user_plan",
       description |-> "Return the current subscription plan for the authenticated user, including tier details and feature limits.",
       method |-> "user.getPlan",
       errorPhrase |-> "Error getting user plan: ",
       schema |-> NoFields],
     [name |-> "get_user_scopes",
       description |-> "Retrieve all accessible scopes for the authenticated user, such as personal workspaces or shared teams.",
       method |-> "user.getScopes",
       errorPhrase |-> "Error getting user scopes: ",
       schema |-> NoFields],
     [name |-> "check_rate_limits",
       description |-> "Retrieve rate limit information for a given scope. Useful for monitoring usage limits and avoiding throttling.",
       method |-> "rateLimits.find",
       errorPhrase |-> "Error checking rate limits: ",
       schema |->
         ("scope" :> [type |-> "string", optional |-> TRUE, elem |-> "", values |-> {}])] >>

(* An init that registers its first tool a second time. *)
ToolsTwice(variant) ==
  IF variant = "v1" THEN Append(V1Tools, V1Tools[1]) ELSE Append(V2Tools, V2Tools[1])

Tools(variant) == IF variant = "v1" THEN V1Tools ELSE V2Tools

ToolNames(variant) == {Tools(variant)[i].name : i \in 1..Len(Tools(variant))}

(* McpServer.tool: a name maps to the position of its registration.  The  *)
(* SDK refuses a name that is already registered; the first one stays.    *)
RECURSIVE RegisterFrom(_, _, _)
RegisterFrom(tools, i, reg) ==
  IF i > Len(tools) THEN reg
  ELSE RegisterFrom(tools, i + 1,
         IF tools[i].name \in DOMAIN reg THEN reg
         ELSE reg @@ (tools[i].name :> i))

(* An init whose first registration is missing. *)
RegisterAllButFirst(variant) == RegisterFrom(Tools(variant), 2, NoFields)

RegisterAll(variant) == RegisterFrom(Tools(variant), 1, NoFields)

Registered(reg, name) == name \in DOMAIN reg

Descriptor(variant, reg, name) == Tools(variant)[reg[name]]

(* A schema whose fields are all declared optional. *)
SchemaAllOptional(variant, reg, name) ==
  LET schema == Descriptor(variant, reg, name).schema
  IN  [k \in DOMAIN schema |-> [schema[k] EXCEPT !.optional = TRUE]]

(* The zod shape given to McpServer.tool for the tool. *)
Schema(variant, reg, name) == Descriptor(variant, reg, name).schema

(***************************************************************************)
(* Argument validation: the SDK parses the call's arguments with the zod   *)
(* object schema of the tool before it calls the handler.                  *)
(***************************************************************************)
(* A validation that takes any string for an enum. *)
TypeOkAnyString(spec, v) ==
  CASE spec.type \in {"string", "enum"} -> v.t = "string"
    [] spec.type = "array" ->
         /\ v.t = "array"
         /\ \A i \in 1..Len(v.a) :
              v.a[i].t = (IF spec.elem = "enum" THEN "string" ELSE spec.elem)
    [] OTHER -> v.t = spec.type

TypeOk(spec, v) ==
  CASE spec.type = "string" -> v.t = "string"
    [] spec.type = "number" -> v.t = "number"
    [] spec.type = "boolean" -> v.t = "boolean"
    [] spec.type = "enum" -> v.t = "string" /\ v.s \in spec.values
    [] spec.type = "array" ->
         /\ v.t = "array"
         /\ \A i \in 1..Len(v.a) :
              IF spec.elem = "enum"
              THEN v.a[i].t = "string" /\ v.a[i].s \in spec.values
              ELSE v.a[i].t = spec.elem
    [] spec.type = "object" ->
         \* z.object({ modelId: z.enum([...]), imageGenerations: z.boolean().optional() })
         /\ v.t = "object"
         /\ Get(v, "modelId").t = "string" /\ Get(v, "modelId").s \in spec.values
         /\ Get(v, "imageGenerations").t \in {"undefined", "boolean"}
    [] OTHER -> v.t = spec.type

(* The fields zod reports: a required field that is missing, or a field   *)
(* whose value has the wrong type or is outside its enum.  All of them    *)
(* are reported in one pass.                                               *)
Issues(schema, raw) ==
  {k \in DOMAIN schema :
     IF k \in DOMAIN raw THEN ~TypeOk(schema[k], raw[k])
     ELSE ~schema[k].optional}

(* A parse that lets undeclared keys through to the handler. *)
ParsedPassthrough(schema, raw) == raw

(* What the handler receives: the schema's keys that were supplied;       *)
(* keys the schema does not know are stripped.                            *)
Parsed(schema, raw) == [k \in DOMAIN schema \cap DOMAIN raw |-> raw[k]]

(* A destructured handler parameter: undefined when it was not supplied.  *)
Arg(args, k) == IF k \in DOMAIN args THEN args[k] ELSE Undef

(***************************************************************************)
(* default.fetch: the Worker's entry point.                                *)
(***************************************************************************)
(* A router that hands every path that is not an SSE path to the MCP endpoint. *)
RouteRest(path, apiKey) ==
  IF path \in {"/sse", "/sse/message"}
  THEN [status |-> 200, body |-> "", route |-> "sse", props |-> apiKey]
  ELSE [status |-> 200, body |-> "", route |-> "mcp", props |-> apiKey]

Route(path, apiKey) ==
  IF path \in {"/sse", "/sse/message"}
  THEN [status |-> 200, body |-> "", route |-> "sse", props |-> apiKey]
  ELSE IF path = "/mcp"
  THEN [status |-> 200, body |-> "", route |-> "mcp", props |-> apiKey]
  ELSE [status |-> 404, body |-> "Not found", route |-> "none", props |-> ""]

(* v1: the key is env.V0_API_KEY, whatever the request carries. *)
FetchV1(request, env) == Route(request.path, env)

(* An entry point that routes without looking at the key. *)
FetchV2Unchecked(request, env) == Route(request.path, request.key)

(* v2: the key is the "key" query parameter; none, or an empty one, is a 401. *)
FetchV2(request, env) ==
  IF request.key = ""
  THEN [status |-> 401, body |-> "Missing key query parameter",
        route |-> "none", props |-> ""]
  ELSE Route(request.path, request.key)

Fetch(variant, request, env) ==
  IF variant = "v1" THEN FetchV1(request, env) ELSE FetchV2(request, env)


(***************************************************************************)
(* The README of the v2 server, section "Available Tools": the tools it    *)
(* documents, under the headings that state how many there are.            *)
(***************************************************************************)
DocumentedTools ==
  [chat |-> {"create_chat", "find_chats", "initialize_chat", "get_chat",
             "update_chat", "favorite_chat", "fork_chat", "send_message",
             "find_chat_messages", "get_chat_message", "find_chat_versions",
             "get_chat_version", "update_chat_version_files", "resume_message",
             "delete_chat"},
   project |-> {"create_project", "find_projects", "get_project_by_id",
                "get_project_by_chat_id", "update_project",
                "assign_project_to_chat"},
   deployment |-> {"find_deployments", "create_deployment", "get_deployment",
                   "delete_deployment", "find_deployment_logs",
                   "find_deployment_errors"},
   integration |-> {"create_vercel_project", "find_vercel_projects"},
   hook |-> {"find_hooks", "create_hook", "get_hook", "update_hook",
             "delete_hook"},
   user |-> {"get_user_info", "get_user_billing", "get_user_plan",
             "get_user_scopes"},
   system |-> {"check_rate_limits"}]

(* The numbers in the headings: "Chat Management (15 tools)", ... *)
DocumentedCounts ==
  [chat |-> 15, project |-> 6, deployment |-> 6, integration |-> 2, hook |-> 5,
   user |-> 4, system |-> 1]
(***************************************************************************)
(* How a call of an async function ends: it returns a value or it throws.  *)
(***************************************************************************)
Return(v) == [threw |-> FALSE, value |-> v, isError |-> FALSE, message |-> <<>>]
Throw(m) == [threw |-> TRUE, value |-> Undef, isError |-> TRUE, message |-> m]
(* throw v, for a value v that is no Error object *)
ThrowValue(v) == [threw |-> TRUE, value |-> v, isError |-> FALSE, message |-> <<>>]

(* What the upstream platform does with one request: no connection        *)
(* (kind "network"), or a response with a status, a body text and the     *)
(* JSON value of that body ([t |-> "invalid"] when the body is no JSON).   *)
NotJson == [t |-> "invalid"]
Answer(status, text, json) ==
  [kind |-> "response", status |-> status, text |-> text, json |-> json]
NetworkError == [kind |-> "network", status |-> 0, text |-> "fetch failed",
                 json |-> NotJson]
(* The request is rejected with a value that is no Error object. *)
Rejection(v) == [kind |-> "thrown", status |-> 0, text |-> "", json |-> v]
NoOutcome == [kind |-> "none", status |-> 0, text |-> "", json |-> NotJson]
ResOk(outcome) == outcome.status >= 200 /\ outcome.status <= 299

(***************************************************************************)
(* v1: createV0Client, the repository's own client.                        *)
(***************************************************************************)
BaseUrl == "https://api.v0.dev/v1"

(* new URLSearchParams(query).toString() *)
QueryString(query) ==
  LET ks == OrderedKeys(query)
  IN  Join([i \in 1..Len(ks) |-> <<ks[i], "=">> \o ToStr(query[ks[i]])], "&")

(* Entries that are kept whatever their value. *)
DefinedOrNot(o) == o

(* Object.fromEntries(Object.entries(o).filter(([_, value]) => value !== undefined)) *)
Defined(o) == [k \in {x \in DOMAIN o : o[x].t # "undefined"} |-> o[k]]

(* The arguments each client method gives to fetcher: url, method, params. *)
ClientV1(method, p) ==
  CASE method = "chats.create" ->
         [url |-> <<"/chats">>, method |-> "POST",
          params |-> [body |-> Obj([message |-> Get(p, "message"),
                                    attachments |-> Get(p, "attachments"),
                                    system |-> Get(p, "system"),
                                    chatPrivacy |-> Get(p, "chatPrivacy"),
                                    projectId |-> Get(p, "projectId"),
                                    modelConfiguration |->
                                      Get(p, "modelConfiguration")])]]
    [] method = "chats.getById" ->
         [url |-> <<"/chats/">> \o ToStr(Get(p, "chatId")), method |-> "GET",
          params |-> NoFields]
    [] method = "chats.createMessage" ->
         [url |-> <<"/chats/">> \o ToStr(Get(p, "chatId")) \o <<"/messages">>,
          method |-> "POST",
          params |-> [body |-> Obj([message |-> Get(p, "message"),
                                    attachments |-> Get(p, "attachments"),
                                    modelConfiguration |->
                                      Get(p, "modelConfiguration")])]]
    [] method = "chats.find" ->
         LET query == IF Truthy(p)
                      THEN Defined([limit |-> Get(p, "limit"),
                                    offset |-> Get(p, "offset"),
                                    isFavorite |-> Get(p, "isFavorite")])
                      ELSE NoFields
         IN  [url |-> <<"/chats">>, method |-> "GET",
              params |-> IF DOMAIN query # {} THEN [query |-> Obj(query)]
                         ELSE NoFields]
    [] method = "chats.delete" ->
         [url |-> <<"/chats/">> \o ToStr(Get(p, "chatId")), method |-> "DELETE",
          params |-> NoFields]
    [] method = "projects.create" ->
         [url |-> <<"/projects">>, method |-> "POST",
          params |-> [body |-> Obj([name |-> Get(p, "name"),
                                    description |-> Get(p, "description"),
                                    icon |-> Get(p, "icon"),
                                    environmentVariables |->
                                      Get(p, "environmentVariables"),
                                    instructions |-> Get(p, "instructions")])]]
    [] method = "projects.find" ->
         [url |-> <<"/projects">>, method |-> "GET", params |-> NoFields]
    [] method = "user.get" ->
         [url |-> <<"/user">>, method |-> "GET", params |-> NoFields]
    [] method = "user.getPlan" ->
         [url |-> <<"/user/plan">>, method |-> "GET", params |-> NoFields]
    [] method = "rateLimits.find" ->
         LET query == IF Truthy(p) THEN Defined([scope |-> Get(p, "scope")])
                      ELSE NoFields
         IN  [url |-> <<"/rate-limits">>, method |-> "GET",
              params |-> IF DOMAIN query # {} THEN [query |-> Obj(query)]
                         ELSE NoFields]

(* A fetcher that sends every request with one fixed key. *)
FetcherRequestFixedKey(apiKey, url, method, params) ==
  [method |-> method, url |-> url,
   headers |-> [Authorization |-> <<"Bearer ", "key-0">>], body |-> Undef]

(* A fetcher whose headers are those of the body alone. *)
FetcherRequestNoAuth(apiKey, url, method, params) ==
  LET hasBody == method # "GET" /\ "body" \in DOMAIN params /\ Truthy(params.body)
  IN  [method |-> method, url |-> <<BaseUrl>> \o url,
       headers |-> IF hasBody THEN [ContentType |-> <<"application/json">>]
                   ELSE NoFields,
       body |-> IF hasBody THEN JsonDocument(params.body) ELSE Undef]

(* A fetcher that declares a JSON body on every request. *)
FetcherRequestAlwaysJson(apiKey, url, method, params) ==
  [method |-> method, url |-> <<BaseUrl>> \o url,
   headers |-> [Authorization |-> <<"Bearer ", apiKey>>,
                ContentType |-> <<"application/json">>],
   body |-> IF "body" \in DOMAIN params THEN JsonDocument(params.body) ELSE Undef]

(* fetcher, up to its fetch: the request it sends. *)
FetcherRequest(apiKey, url, method, params) ==
  LET queryString == IF "query" \in DOMAIN params /\ Truthy(params.query)
                     THEN <<"?">> \o QueryString(params.query.o) ELSE <<>>
      hasBody == method # "GET" /\ "body" \in DOMAIN params /\ Truthy(params.body)
      \* { Authorization: `Bearer ${apiKey}`, ...params.headers }
      given == IF "headers" \in DOMAIN params THEN params.headers ELSE NoFields
      spread == given @@ [Authorization |-> <<"Bearer ", apiKey>>]
      headers == IF hasBody
                 THEN [ContentType |-> <<"application/json">>] @@ spread
                 ELSE spread
  IN  [method |-> method,
       url |-> <<BaseUrl>> \o url \o queryString,
       headers |-> headers,
       body |-> IF hasBody THEN JsonDocument(params.body) ELSE Undef]

(* A fetcher that does not look at the key. *)
FetcherRefusesNever(apiKey) == FALSE

(* fetcher throws before it sends anything when the key is empty. *)
FetcherRefuses(apiKey) == apiKey = ""
KeyRequired == Throw(<<"V0_API_KEY is required">>)

(* A fetcher that drops the status and the body of a failed response. *)
FetcherResultNoDetail(outcome) ==
  IF outcome.kind = "network" THEN Throw(<<outcome.text>>)
  ELSE IF outcome.kind = "thrown" THEN ThrowValue(outcome.json)
  ELSE IF ~ResOk(outcome) THEN Throw(<<"Request failed">>)
  ELSE IF outcome.json = NotJson THEN Throw(<<"Unexpected end of JSON input">>)
  ELSE Return(outcome.json)

(* fetcher, after its fetch has settled. *)
FetcherResult(outcome) ==
  IF outcome.kind = "network" THEN Throw(<<outcome.text>>)
  ELSE IF outcome.kind = "thrown" THEN ThrowValue(outcome.json)
  ELSE IF ~ResOk(outcome)
  THEN Throw(<<"HTTP ", ToString(outcome.status), ": ", outcome.text>>)
  ELSE IF outcome.json = NotJson THEN Throw(<<"Unexpected end of JSON input">>)
  ELSE Return(outcome.json)

(***************************************************************************)
(* v2: createClient of the v0-sdk package.  The package is not part of     *)
(* the repository; a method returns the parsed response or throws an       *)
(* Error that carries the status and the message of the failure.           *)
(***************************************************************************)
SdkResult(outcome) ==
  IF outcome.kind = "network" THEN Throw(<<outcome.text>>)
  ELSE IF outcome.kind = "thrown" THEN ThrowValue(outcome.json)
  ELSE IF ~ResOk(outcome)
  THEN Throw(<<"HTTP ", ToString(outcome.status), ": ", outcome.text>>)
  ELSE IF outcome.json = NotJson THEN Throw(<<"Unexpected end of JSON input">>)
  ELSE Return(outcome.json)

(***************************************************************************)
(* The tool handlers.  Each is                                             *)
(*    async (args) => { try { const r = await v0.<method>(<params>);       *)
(*                            return <text of r> }                         *)
(*                      catch (error) { return <phrase + message> } }      *)
(***************************************************************************)
(* A handler that forwards none of its parameters. *)
PassThroughDropped(args, keys) == Obj([k \in keys |-> Undef])

PassThrough(args, keys) == Obj([k \in keys |-> Arg(args, k)])

(* A handler that builds the configuration object whatever it was given. *)
ModelConfigurationAlways(args) ==
  Obj([modelId |-> Arg(args, "modelId"),
       imageGenerations |-> Coalesce(Arg(args, "imageGenerations"), Bool(FALSE))])

(* modelConfiguration: modelId ? {modelId, imageGenerations ?? false} : undefined *)
ModelConfiguration(args) ==
  IF Truthy(Arg(args, "modelId"))
  THEN Obj([modelId |-> Arg(args, "modelId"),
            imageGenerations |->
              Coalesce(Arg(args, "imageGenerations"), Bool(FALSE))])
  ELSE Undef

(* A default parameter that falls back to 0 whatever default is written. *)
DefaultZero(v, d) == IF v.t = "undefined" THEN Num(0) ELSE v

(* A default parameter, `({ limit = 10 })`: used when the argument is undefined. *)
Default(v, d) == IF v.t = "undefined" THEN d ELSE v

DefaultLimit == 10
DefaultOffset == 0

(* The parameter object a v1 handler gives to the client method. *)
HandlerParamsV1(tool, args) ==
  CASE tool = "create_chat" ->
         Obj([message |-> Arg(args, "message"),
              system |-> Arg(args, "system"),
              chatPrivacy |-> Arg(args, "chatPrivacy"),
              modelConfiguration |-> ModelConfiguration(args)])
    [] tool = "get_chat" -> PassThrough(args, {"chatId"})
    [] tool = "add_message" -> PassThrough(args, {"chatId", "message"})
    [] tool = "find_chats" ->
         Obj([limit |->
                Str(ToStr(Default(Arg(args, "limit"), Num(DefaultLimit)))[1]),
              offset |->
                Str(ToStr(Default(Arg(args, "offset"), Num(DefaultOffset)))[1])])
    [] tool = "create_project" -> PassThrough(args, {"name", "description"})
    [] tool = "delete_chat" -> PassThrough(args, {"chatId"})
    [] OTHER -> Undef

(* The parameter object a v2 handler gives to the SDK method. *)
HandlerParamsV2(tool, schema, args) ==
  CASE tool = "create_chat" ->
         Obj([message |-> Arg(args, "message"),
              system |-> Arg(args, "system"),
              chatPrivacy |-> Arg(args, "chatPrivacy"),
              projectId |-> Arg(args, "projectId"),
              modelConfiguration |-> ModelConfiguration(args),
              attachments |-> Arg(args, "attachments")])
    [] tool = "initialize_chat" ->
         Obj([type |-> Str("zip"),
              zip |-> Obj([url |-> Arg(args, "zipUrl")]),
              name |-> Arg(args, "name"),
              projectId |-> Arg(args, "projectId"),
              lockAllFiles |-> Arg(args, "lockAllFiles")])
    [] OTHER -> IF DOMAIN schema = {} THEN Undef
                ELSE PassThrough(args, DOMAIN schema)

HandlerParams(variant, tool, schema, args) ==
  IF variant = "v1" THEN HandlerParamsV1(tool, args)
  ELSE HandlerParamsV2(tool, schema, args)

(* The outcome of the statements after the await: a text, or a TypeError. *)
Rendered(text) == [threw |-> FALSE, text |-> text]
Broke(message) == [threw |-> TRUE, text |-> message]
NoProperty(v, k) ==
  Broke(<<"Cannot read properties of ", v.t, " (reading '", k, "')">>)

(* `${r.k}` and `${r.k || "fallback"}` *)
(* A template that prints a fixed text in the place of the field. *)
FMasked(r, k) == <<"(hidden)">>

F(r, k) == ToStr(Get(r, k))
FOr(r, k, fallback) == ToStr(OrElse(Get(r, k), Str(fallback)))

(* A text over the fields of the result r: reading a field of null or     *)
(* undefined throws.                                                       *)
OfResult(r, firstKey, text) ==
  IF Nullish(r) THEN NoProperty(r, firstKey) ELSE Rendered(text)

(* A slice that always starts at the first item. *)
SliceFromFirst(a, start, end) ==
  IF end <= 0 THEN <<>> ELSE SubSeq(a, 1, IF end > Len(a) THEN Len(a) ELSE end)

(* Array.prototype.slice(start, end) *)
SliceIndex(n, len) ==
  IF n < 0 THEN (IF len + n < 0 THEN 0 ELSE len + n)
  ELSE (IF n > len THEN len ELSE n)
Slice(a, start, end) ==
  LET from == SliceIndex(start, Len(a))
      to == SliceIndex(end, Len(a))
  IN  IF from >= to THEN <<>> ELSE SubSeq(a, from + 1, to)

(* r.data when it is an array: the items a list is made of. *)
Data(r) ==
  IF Get(r, "data").t = "array" THEN Get(r, "data").a ELSE <<>>

(* A listing whose count is the number of the lines it renders. *)
ListingCountsShown(r, shown, lines, noun, placeholder) ==
  IF Nullish(r) THEN NoProperty(r, "data")
  ELSE IF ~Truthy(Get(r, "data"))
  THEN Rendered(<<"Found ", "0", " ", noun, ":\n\n", placeholder>>)
  ELSE Rendered(<<"Found ", ToString(Len(lines)), " ", noun, ":\n\n">>
                \o Join(lines, "\n"))

(* `Found ${r.data ? r.data.length : 0} <noun>:\n\n${list}` where list is  *)
(* r.data ? shown.map(line).join("\n") : placeholder; shown is r.data or  *)
(* a slice of it and lines are the texts of its items.                     *)
Listing(r, shown, lines, noun, placeholder) ==
  IF Nullish(r) THEN NoProperty(r, "data")
  ELSE LET data == Get(r, "data")
       IN  IF ~Truthy(data)
           THEN Rendered(<<"Found ", "0", " ", noun, ":\n\n", placeholder>>)
           ELSE IF data.t # "array"
           THEN Broke(<<"data.map is not a function">>)
           ELSE IF \E i \in 1..Len(shown) : Nullish(shown[i])
           THEN Broke(<<"Cannot read properties of null (reading 'id')">>)
           ELSE Rendered(<<"Found ", ToString(Len(data.a)), " ", noun, ":\n\n">>
                         \o Join(lines, "\n"))

(* x?.join(", ") || fallback *)
JoinedOr(v, fallback) ==
  IF v.t = "array" /\ Len(v.a) > 0
  THEN Join([i \in 1..Len(v.a) |-> ToStr(v.a[i])], ", ")
  ELSE <<fallback>>

(* The JSON.stringify(r, null, 2) of a text. *)
Json(r) == JsonText(r)

SuccessV1(tool, args, r) ==
  CASE tool = "create_chat" ->
         OfResult(r, "url",
           <<"Chat created successfully!\n\nChat URL: ">> \o F(r, "url")
           \o <<"\nChat ID: ">> \o F(r, "id"))
    [] tool = "get_chat" ->
         OfResult(r, "id",
           <<"Chat Details:\n\nID: ">> \o F(r, "id") \o <<"\nURL: ">> \o F(r, "url"))
    [] tool = "add_message" ->
         Rendered(<<"Message added successfully!\n\nResponse: ">> \o Json(r))
    [] tool = "find_chats" ->
         LET limit == Default(Arg(args, "limit"), Num(DefaultLimit)).n
         IN  LET shown == Slice(Data(r), 0, limit)
             IN  Listing(r, shown,
                   [i \in 1..Len(shown) |->
                      <<"- ">> \o F(shown[i], "id")],
                   "chats", "No chats found")
    [] tool = "create_project" ->
         OfResult(r, "id",
           <<"Project created successfully!\n\nID: ">> \o F(r, "id")
           \o <<"\nName: ">> \o F(r, "name"))
    [] tool = "find_projects" ->
         LET limit == Default(Arg(args, "limit"), Num(DefaultLimit)).n
             offset == Default(Arg(args, "offset"), Num(DefaultOffset)).n
         IN  LET shown == Slice(Data(r), offset, offset + limit)
             IN  Listing(r, shown,
                   [i \in 1..Len(shown) |->
                      <<"- ">> \o F(shown[i], "id") \o <<": ">> \o F(shown[i], "name")],
                   "projects", "No projects found")
    [] tool = "get_user_info" ->
         OfResult(r, "id",
           <<"User Information:\n\nID: ">> \o F(r, "id") \o <<"\nEmail: ">>
           \o F(r, "email") \o <<"\nName: ">> \o FOr(r, "name", "Not provided"))
    [] tool = "get_user_plan" ->
         OfResult(r, "plan",
           <<"User Plan:\n\nPlan: ">> \o F(r, "plan") \o <<"\nDetails: ">> \o Json(r))
    [] tool = "check_rate_limits" ->
         Rendered(<<"Rate Limits:\n\n">> \o Json(r))
    [] tool = "delete_chat" ->
         Rendered(<<"Chat ">> \o ToStr(Arg(args, "chatId"))
                  \o <<" deleted successfully!">>)

(* String.prototype.substring(0, n) *)
Substring(s, n) == IF Len(s) > n THEN SubSeq(s, 1, n) ELSE s

PreviewLength == 100

(* `${msg.content?.substring(0, 100)}`: undefined when content is null or *)
(* undefined; only a string has substring.                                *)
ContentPreview(v) ==
  IF Nullish(v) THEN <<"undefined">>
  ELSE IF v.t = "string" THEN <<Substring(v.s, PreviewLength)>>
  ELSE <<>>
HasPreview(v) == Nullish(v) \/ v.t = "string"

(* `${name ? `\nNew name: ${name}` : ""}` *)
NewName(args) ==
  IF Truthy(Arg(args, "name"))
  THEN <<"\nNew name: ">> \o ToStr(Arg(args, "name")) ELSE <<"">>

SuccessV2(tool, args, r) ==
  CASE tool = "create_chat" ->
         OfResult(r, "url",
           <<"Chat created successfully!\n\nChat URL: ">> \o F(r, "url")
           \o <<"\nChat ID: ">> \o F(r, "id"))
    [] tool = "find_chats" ->
         LET shown == Data(r)
         IN  Listing(r, shown,
               [i \in 1..Len(shown) |->
                  <<"- ">> \o F(shown[i], "id") \o <<": ">> \o FOr(shown[i], "name", "Untitled") \o <<" (">> \o F(shown[i], "url") \o <<")">>],
               "chats", "No chats found")
    [] tool = "initialize_chat" ->
         OfResult(r, "url",
           <<"Chat initialized successfully from zip!\n\nChat URL: ">>
           \o F(r, "url") \o <<"\nChat ID: ">> \o F(r, "id"))
    [] tool = "get_chat" ->
         OfResult(r, "id",
           <<"Chat Details:\n\nID: ">> \o F(r, "id") \o <<"\nName: ">>
           \o FOr(r, "name", "Untitled") \o <<"\nURL: ">> \o F(r, "url")
           \o <<"\nCreated: ">> \o FOr(r, "createdAt", "Unknown"))
    [] tool = "update_chat" ->
         OfResult(r, "id",
           <<"Chat updated successfully!\n\nChat ID: ">> \o F(r, "id")
           \o NewName(args))
    [] tool = "favorite_chat" ->
         Rendered(<<"Chat ",
                    IF Truthy(Arg(args, "isFavorite")) THEN "marked as favorite"
                    ELSE "removed from favorites",
                    " successfully!">>)
    [] tool = "fork_chat" ->
         OfResult(r, "id",
           <<"Chat forked successfully!\n\nNew Chat ID: ">> \o F(r, "id")
           \o <<"\nNew Chat URL: ">> \o F(r, "url"))
    [] tool = "send_message" ->
         OfResult(r, "id",
           <<"Message sent successfully!\n\nMessage ID: ">> \o F(r, "id")
           \o <<"\nResponse: ">> \o Json(r))
    [] tool = "find_chat_messages" ->
         IF /\ ~Nullish(r) /\ Get(r, "data").t = "array"
            /\ \E i \in 1..Len(Get(r, "data").a) :
                 LET msg == Get(r, "data").a[i]
                 IN  ~Nullish(msg) /\ ~HasPreview(Get(msg, "content"))
         THEN Broke(<<"msg.content?.substring is not a function">>)
         ELSE LET shown == Data(r)
              IN  Listing(r, shown,
                    [i \in 1..Len(shown) |->
                       <<"- ">> \o F(shown[i], "id") \o <<": ">> \o F(shown[i], "role") \o <<" - ">> \o ContentPreview(Get(shown[i], "content")) \o <<"...">>],
                    "messages", "No messages found")
    [] tool = "get_chat_message" ->
         OfResult(r, "id",
           <<"Message Details:\n\nID: ">> \o F(r, "id") \o <<"\nRole: ">>
           \o F(r, "role") \o <<"\nContent: ">> \o F(r, "content")
           \o <<"\nCreated: ">> \o FOr(r, "createdAt", "Unknown"))
    [] tool = "find_chat_versions" ->
         LET shown == Data(r)
         IN  Listing(r, shown,
               [i \in 1..Len(shown) |->
                  <<"- ">> \o F(shown[i], "id") \o <<": ">> \o FOr(shown[i], "demoUrl", "No demo")],
               "versions", "No versions found")
    [] tool = "get_chat_version" ->
         OfResult(r, "id",
           <<"Version Details:\n\nID: ">> \o F(r, "id") \o <<"\nDemo URL: ">>
           \o FOr(r, "demoUrl", "None") \o <<"\nFiles: ">>
           \o (IF Truthy(Get(r, "files")) THEN Json(Get(r, "files"))
               ELSE <<"None">>))
    [] tool = "update_chat_version_files" ->
         Rendered(<<"Version files updated successfully!\n\nUpdated ",
                    ToString(Len(Arg(args, "files").a)), " files.">>)
    [] tool = "resume_message" ->
         OfResult(r, "id",
           <<"Message resumed successfully!\n\nMessage ID: ">> \o F(r, "id"))
    [] tool = "delete_chat" ->
         Rendered(<<"Chat ">> \o ToStr(Arg(args, "chatId"))
                  \o <<" deleted successfully!">>)
    [] tool = "create_project" ->
         OfResult(r, "id",
           <<"Project created successfully!\n\nID: ">> \o F(r, "id")
           \o <<"\nName: ">> \o F(r, "name") \o <<"\nDescription: ">>
           \o FOr(r, "description", "None"))
    [] tool = "find_projects" ->
         LET shown == Data(r)
         IN  Listing(r, shown,
               [i \in 1..Len(shown) |->
                  <<"- ">> \o F(shown[i], "id") \o <<": ">> \o F(shown[i], "name") \o <<" - ">> \o FOr(shown[i], "description", "No description")],
               "projects", "No projects found")
    [] tool = "get_project_by_id" ->
         OfResult(r, "id",
           <<"Project Details:\n\nID: ">> \o F(r, "id") \o <<"\nName: ">>
           \o F(r, "name") \o <<"\nDescription: ">>
           \o FOr(r, "description", "None") \o <<"\nInstructions: ">>
           \o FOr(r, "instructions", "None"))
    [] tool = "get_project_by_chat_id" ->
         OfResult(r, "id",
           <<"Associated Project:\n\nID: ">> \o F(r, "id") \o <<"\nName: ">>
           \o F(r, "name") \o <<"\nDescription: ">>
           \o FOr(r, "description", "None"))
    [] tool = "update_project" ->
         OfResult(r, "id",
           <<"Project updated successfully!\n\nProject ID: ">> \o F(r, "id")
           \o NewName(args))
    [] tool = "assign_project_to_chat" ->
         Rendered(<<"Project ">> \o ToStr(Arg(args, "projectId"))
                  \o <<" assigned to chat ">> \o ToStr(Arg(args, "chatId"))
                  \o <<" successfully!">>)
    [] tool = "find_deployments" ->
         LET shown == Data(r)
         IN  Listing(r, shown,
               [i \in 1..Len(shown) |->
                  <<"- ">> \o F(shown[i], "id") \o <<": ">> \o FOr(shown[i], "webUrl", "No URL")],
               "deployments", "No deployments found")
    [] tool = "create_deployment" ->
         OfResult(r, "id",
           <<"Deployment created successfully!\n\nDeployment ID: ">>
           \o F(r, "id") \o <<"\nWeb URL: ">> \o FOr(r, "webUrl", "Deploying...")
           \o <<"\nAPI URL: ">> \o FOr(r, "apiUrl", "Not available"))
    [] tool = "get_deployment" ->
         OfResult(r, "id",
           <<"Deployment Details:\n\nID: ">> \o F(r, "id") \o <<"\nWeb URL: ">>
           \o FOr(r, "webUrl", "Not available") \o <<"\nAPI URL: ">>
           \o FOr(r, "apiUrl", "Not available") \o <<"\nInspector URL: ">>
           \o FOr(r, "inspectorUrl", "Not available") \o <<"\nChat ID: ">>
           \o FOr(r, "chatId", "Not available") \o <<"\nProject ID: ">>
           \o FOr(r, "projectId", "Not available") \o <<"\nVersion ID: ">>
           \o FOr(r, "versionId", "Not available"))
    [] tool = "delete_deployment" ->
         Rendered(<<"Deployment ">> \o ToStr(Arg(args, "deploymentId"))
                  \o <<" deleted successfully!">>)
    [] tool = "find_deployment_logs" ->
         Rendered(<<"Deployment Logs:\n\n">> \o Json(r))
    [] tool = "find_deployment_errors" ->
         Rendered(<<"Deployment Errors:\n\n">> \o Json(r))
    [] tool = "create_vercel_project" ->
         OfResult(r, "id",
           <<"Vercel project created successfully!\n\nProject ID: ">>
           \o F(r, "id") \o <<"\nName: ">> \o F(r, "name"))
    [] tool = "find_vercel_projects" ->
         LET shown == Data(r)
         IN  Listing(r, shown,
               [i \in 1..Len(shown) |->
                  <<"- ">> \o F(shown[i], "id") \o <<": ">> \o F(shown[i], "name")],
               "Vercel projects", "No Vercel projects found")
    [] tool = "find_hooks" ->
         LET shown == Data(r)
         IN  Listing(r, shown,
               [i \in 1..Len(shown) |->
                  <<"- ">> \o F(shown[i], "id") \o <<": ">> \o FOr(shown[i], "name", "Unnamed") \o <<" -> ">> \o F(shown[i], "url") \o <<" (Events: ">> \o JoinedOr(Get(shown[i], "events"), "None") \o <<")">>],
               "hooks", "No hooks found")
    [] tool = "create_hook" ->
         OfResult(r, "id",
           <<"Hook created successfully!\n\nHook ID: ">> \o F(r, "id")
           \o <<"\nName: ">> \o F(r, "name") \o <<"\nURL: ">> \o F(r, "url")
           \o <<"\nEvents: ">>
           \o Join([i \in 1..Len(Arg(args, "events").a) |->
                      ToStr(Arg(args, "events").a[i])], ", "))
    [] tool = "get_hook" ->
         OfResult(r, "id",
           <<"Hook Details:\n\nID: ">> \o F(r, "id") \o <<"\nName: ">>
           \o FOr(r, "name", "Unnamed") \o <<"\nURL: ">> \o F(r, "url")
           \o <<"\nEvents: ">> \o JoinedOr(Get(r, "events"), "None")
           \o <<"\nChat ID: ">> \o FOr(r, "chatId", "None")
           \o <<"\nProject ID: ">> \o FOr(r, "projectId", "None"))
    [] tool = "update_hook" ->
         OfResult(r, "id",
           <<"Hook updated successfully!\n\nHook ID: ">> \o F(r, "id")
           \o <<"\nName: ">> \o FOr(r, "name", "Unnamed") \o <<"\nURL: ">>
           \o F(r, "url"))
    [] tool = "delete_hook" ->
         Rendered(<<"Hook ">> \o ToStr(Arg(args, "hookId"))
                  \o <<" deleted successfully!">>)
    [] tool = "get_user_info" ->
         OfResult(r, "id",
           <<"User Information:\n\nID: ">> \o F(r, "id") \o <<"\nEmail: ">>
           \o F(r, "email") \o <<"\nName: ">> \o FOr(r, "name", "Not provided"))
    [] tool = "get_user_billing" ->
         Rendered(<<"Billing Information:\n\n">> \o Json(r))
    [] tool = "get_user_plan" ->
         OfResult(r, "plan",
           <<"User Plan:\n\nPlan: ">> \o FOr(r, "plan", "Unknown")
           \o <<"\nDetails: ">> \o Json(r))
    [] tool = "get_user_scopes" ->
         Rendered(<<"User Scopes:\n\n">> \o Json(r))
    [] tool = "check_rate_limits" ->
         Rendered(<<"Rate Limits:\n\n">> \o Json(r))

Success(variant, tool, args, r) ==
  IF variant = "v1" THEN SuccessV1(tool, args, r) ELSE SuccessV2(tool, args, r)

(* The result envelope of a tool call. *)
TextEnvelope(text) == [content |-> << [type |-> "text", text |-> text] >>]
NoEnvelope == [content |-> <<>>]

(* A catch block that reads error.message whatever was thrown. *)
ErrorTextMessageOnly(c) == c.message

(* error instanceof Error ? error.message : String(error) *)
ErrorText(c) == IF c.isError THEN c.message ELSE ToStr(c.value)

(* The try block after the await has settled with completion c of the     *)
(* client method: what it returns, or what it throws.                     *)
TryBlock(variant, tool, args, c) ==
  IF c.threw THEN [threw |-> TRUE, text |-> ErrorText(c)]
  ELSE Success(variant, tool, args, c.value)

(* A catch block that lets the failure escape the handler. *)
CatchBlockRethrows(phrase, tried) ==
  IF tried.threw
  THEN [raised |-> TRUE, envelope |-> NoEnvelope]
  ELSE [raised |-> FALSE, envelope |-> TextEnvelope(tried.text)]

(* A catch block that returns the failure's message alone. *)
CatchBlockNoPhrase(phrase, tried) ==
  [raised |-> FALSE, envelope |-> TextEnvelope(tried.text)]

(* The catch block: every failure becomes a text after the tool's phrase. *)
CatchBlock(phrase, tried) ==
  IF tried.threw
  THEN [raised |-> FALSE, envelope |-> TextEnvelope(<<phrase>> \o tried.text)]
  ELSE [raised |-> FALSE, envelope |-> TextEnvelope(tried.text)]

(* The handler from the point where the awaited call has settled. *)
HandlerResult(variant, descriptor, args, c) ==
  CatchBlock(descriptor.errorPhrase, TryBlock(variant, descriptor.name, args, c))

(***************************************************************************)
(* What the handler awaits: the calls of client methods its try block      *)
(* makes, each with the requests the client sends for it.                  *)
(***************************************************************************)
(* A fetcher that sends its request again. *)
FetcherRequestsTwice(apiKey, url, method, params) ==
  IF apiKey = "" THEN <<>>
  ELSE << [method |-> method, url |-> url, headers |-> [Authorization |-> <<"Bearer ", apiKey>>], body |-> Undef],
          [method |-> method, url |-> url, headers |-> [Authorization |-> <<"Bearer ", apiKey>>], body |-> Undef] >>

(* fetcher: the requests one call of it sends; none when it refuses. *)
FetcherRequests(apiKey, url, method, params) ==
  IF FetcherRefuses(apiKey) THEN <<>>
  ELSE <<FetcherRequest(apiKey, url, method, params)>>

ClientCall(variant, apiKey, method, params) ==
  [method |-> method, params |-> params, apiKey |-> apiKey,
   wire |-> IF variant = "v1"
            THEN LET f == ClientV1(method, params)
                 IN  FetcherRequests(apiKey, f.url, f.method, f.params)
            ELSE <<>>]

(* A handler that calls its client method a second time. *)
AwaitedTwice(variant, descriptor, args, apiKey) ==
  LET call == [method |-> descriptor.method, params |-> Obj(args),
               apiKey |-> apiKey, wire |-> <<>>]
  IN  <<call, call>>

(* The calls one run of a handler makes: one, at the top of its try block. *)
Awaited(variant, descriptor, args, apiKey) ==
  << ClientCall(variant, apiKey, descriptor.method,
                HandlerParams(variant, descriptor.name, descriptor.schema, args)) >>

(* The call settles at once, without the network, when fetcher refuses. *)
SettlesAtOnce(variant, apiKey) == variant = "v1" /\ FetcherRefuses(apiKey)

Settled(variant, outcome) ==
  IF variant = "v1" THEN FetcherResult(outcome) ELSE SdkResult(outcome)

(***************************************************************************)
(* The replies of the MCP SDK when it does not call a handler.             *)
(***************************************************************************)
NoResult == [kind |-> "none", raised |-> FALSE, envelope |-> NoEnvelope,
             fields |-> {}]
SdkNotFound(tool) ==
  [kind |-> "not_found", raised |-> FALSE,
   envelope |-> TextEnvelope(<<"Tool ", tool, " not found">>), fields |-> {}]
SdkInvalid(tool, issues) ==
  [kind |-> "invalid", raised |-> FALSE,
   envelope |-> TextEnvelope(<<"Invalid arguments for tool ", tool>>),
   fields |-> issues]
Handled(h) ==
  [kind |-> "envelope", raised |-> h.raised, envelope |-> h.envelope,
   fields |-> {}]

(***************************************************************************)
(* State.                                                                  *)
(***************************************************************************)
VARIABLES
  variant,   \* which server is deployed: "v1" or "v2"
  env,       \* env.V0_API_KEY of the deployment
  agents,    \* per session: the MyMCP instance (props, client, registry)
  calls      \* the requests being served: a bag of call contexts

vars == <<variant, env, agents, calls>>

Sessions == {"s1", "s2"}
Keys == {"key-A", "key-B"}
EnvKeys == {"", "key-E"}
Paths == {"/mcp", "/sse", "/sse/message", "/health"}

Unstarted == [started |-> FALSE, props |-> "", client |-> "", registry |-> NoFields]

(* MyMCP.init: the client is created once, from the props of the request  *)
(* that opened the session, and the tools are registered.                 *)
AgentInit(v, props) ==
  [started |-> TRUE, props |-> props, client |-> props, registry |-> RegisterAll(v)]

Rejected(s, request, r) ==
  [sess |-> "", key |-> request.key, path |-> request.path, route |-> r.route,
   pc |-> "rejected", http |-> r.status, body |-> r.body,
   tool |-> "", args |-> NoFields, frame |-> NoFields, upstream |-> <<>>,
   outcome |-> NoOutcome, result |-> NoResult, trace |-> <<"RECEIVED">>]

Received(s, request, r, tool, args) ==
  [sess |-> s, key |-> request.key, path |-> request.path, route |-> r.route,
   pc |-> "received", http |-> r.status, body |-> r.body,
   tool |-> tool, args |-> args, frame |-> NoFields, upstream |-> <<>>,
   outcome |-> NoOutcome, result |-> NoResult, trace |-> <<"RECEIVED">>]

InFlight == BagToSet(calls)

(* Handlers that keep their parameters in one place shared by all runs. *)
ReplaceShared(bag, c, d) ==
  BagOfAll(LAMBDA x : IF x.pc = "awaiting" THEN [x EXCEPT !.frame = d.frame] ELSE x,
           (bag (-) SetToBag({c})) (+) SetToBag({d}))

(* Each run of a handler has its own parameters and locals. *)
Replace(bag, c, d) == (bag (-) SetToBag({c})) (+) SetToBag({d})

Executed(ups) == [i \in 1..Len(ups) |-> "EXECUTED"]

(* tools/call in the agent: lookup, validation, and the handler up to its *)
(* await.                                                                  *)
Dispatched(v, agent, c) ==
  IF ~Registered(agent.registry, c.tool)
  THEN [c EXCEPT !.pc = "returned", !.result = SdkNotFound(c.tool),
                 !.trace = @ \o <<"LOOKED_UP", "FORMATTED", "RETURNED">>]
  ELSE LET d == Descriptor(v, agent.registry, c.tool)
           schema == Schema(v, agent.registry, c.tool)
           issues == Issues(schema, c.args)
           frame == Parsed(schema, c.args)
           ups == Awaited(v, d, frame, agent.client)
       IN  IF issues # {}
           THEN [c EXCEPT !.pc = "returned", !.result = SdkInvalid(c.tool, issues),
                          !.trace = @ \o <<"LOOKED_UP", "VALIDATED", "FORMATTED",
                                         "RETURNED">>]
           ELSE IF SettlesAtOnce(v, agent.client)
           THEN [c EXCEPT !.pc = "returned", !.frame = frame, !.upstream = ups,
                          !.result = Handled(HandlerResult(v, d, frame, KeyRequired)),
                          !.trace = @ \o <<"LOOKED_UP", "VALIDATED">> \o Executed(ups)
                                      \o <<"FORMATTED", "RETURNED">>]
           ELSE [c EXCEPT !.pc = "awaiting", !.frame = frame, !.upstream = ups,
                          !.trace = @ \o <<"LOOKED_UP", "VALIDATED">> \o Executed(ups)]

(* A handler whose text also shows the session it ran in. *)
ResumedStamped(v, agent, c, outcome) ==
  LET d == Descriptor(v, agent.registry, c.tool)
      h == HandlerResult(v, d, c.frame, Settled(v, outcome))
  IN  [c EXCEPT !.pc = "returned", !.outcome = outcome,
                !.result = Handled([h EXCEPT !.envelope =
                                      TextEnvelope(h.envelope.content[1].text \o <<c.sess>>)]),
                !.trace = @ \o <<"FORMATTED", "RETURNED">>]

(* The awaited call settles and the handler runs to its return. *)
Resumed(v, agent, c, outcome) ==
  LET d == Descriptor(v, agent.registry, c.tool)
  IN  [c EXCEPT !.pc = "returned", !.outcome = outcome,
                !.result = Handled(HandlerResult(v, d, c.frame, Settled(v, outcome))),
                !.trace = @ \o <<"FORMATTED", "RETURNED">>]

(***************************************************************************)
(* Actions.                                                                *)
(***************************************************************************)
Init ==
  /\ variant \in {"v1", "v2"}
  /\ env \in IF variant = "v1" THEN EnvKeys ELSE {""}
  /\ agents = [s \in Sessions |-> Unstarted]
  /\ calls = EmptyBag

(* A client opens a session: default.fetch, then MyMCP.init. *)
Open(s, request, cap) ==
  /\ ~agents[s].started
  /\ LET r == Fetch(variant, request, env)
     IN  IF r.route = "none"
         THEN /\ BagCardinality(calls) < cap
              /\ calls' = calls (+) SetToBag({Rejected(s, request, r)})
              /\ UNCHANGED agents
         ELSE /\ agents' = [agents EXCEPT ![s] = AgentInit(variant, r.props)]
              /\ UNCHANGED calls
  /\ UNCHANGED <<variant, env>>

(* A tools/call request arrives at default.fetch and, when it is routed,  *)
(* runs in the session's agent up to the handler's await.                 *)
Receive(s, request, tool, args, cap) ==
  /\ agents[s].started
  /\ BagCardinality(calls) < cap
  /\ LET r == Fetch(variant, request, env)
     IN  calls' = calls (+) SetToBag({
           IF r.route = "none" THEN Rejected(s, request, r)
           ELSE Dispatched(variant, agents[s], Received(s, request, r, tool, args))})
  /\ UNCHANGED <<variant, env, agents>>

(* The upstream platform answers; the handler resumes and returns. *)
Respond(c, outcome) ==
  /\ c.pc = "awaiting"
  /\ calls' = Replace(calls, c, Resumed(variant, agents[c.sess], c, outcome))
  /\ UNCHANGED <<variant, env, agents>>

(* The response has been sent; the call context is gone. *)
Retire(c) ==
  /\ c.pc \in {"returned", "rejected"}
  /\ calls' = calls (-) SetToBag({c})
  /\ UNCHANGED <<variant, env, agents>>

(* The session ends; its agent is gone. *)
Close(s) ==
  /\ agents[s].started
  /\ \A c \in InFlight : c.sess # s \/ c.pc = "rejected"
  /\ agents' = [agents EXCEPT ![s] = Unstarted]
  /\ UNCHANGED <<variant, env, calls>>

(***************************************************************************)
(* The requests, arguments and upstream outcomes the model draws from.     *)
(***************************************************************************)
(* The interleaved specification sends its calls to one routed path and    *)
(* one path that is not routed.                                            *)
ConcPaths == {"/mcp", "/health"}
Requests == [path : ConcPaths, key : Keys \cup {""}]

Entity ==
  Obj([id |-> Str("c1"), url |-> Str("https://v0.dev/chat/c1"),
       name |-> Str("todo"), email |-> Str("a@b.c"), plan |-> Str("pro")])

Item(n) ==
  Obj([id |-> Str("id" \o ToString(n)), name |-> Str("name" \o ToString(n)),
       url |-> Str("url" \o ToString(n))])

ListResult(n) == Obj([data |-> Arr([i \in 1..n |-> Item(i)])])

(* Lists of up to MaxItems items, and one that is longer than the default  *)
(* limit of the first server's find tools.                                 *)
JsonMenu ==
  {Null, Obj(NoFields), Entity} \cup {ListResult(n) : n \in 0..MaxItems}
  \cup {ListResult(DefaultLimit + 1)}

NotFound404 == Answer(404, "Not Found", NotJson)

Rejections ==
  {Rejection(Str("quota exceeded")), Rejection(Undef), Rejection(Obj([code |-> Num(429)]))}

OutcomeMenu ==
  {NetworkError, NotFound404, Answer(200, "", NotJson)}
  \cup Rejections
  \cup {Answer(200, "", j) : j \in JsonMenu}

(* A well-typed value for a parameter. *)
SampleValue(name, spec) ==
  CASE spec.type = "string" -> Str(name \o "-1")
    [] spec.type = "number" -> Num(1)
    [] spec.type = "boolean" -> Bool(TRUE)
    [] spec.type = "enum" -> Str(CHOOSE x \in spec.values : TRUE)
    [] spec.type = "array" /\ spec.elem = "enum" ->
         Arr(<<Str(CHOOSE x \in spec.values : TRUE)>>)
    [] spec.type = "array" /\ name = "files" ->
         Arr(<<Obj([name |-> Str("a.ts"), content |-> Str("x")])>>)
    [] spec.type = "array" -> Arr(<<Obj([url |-> Str("https://x/a.png")])>>)
    [] OTHER -> Obj([modelId |-> Str("v0-1.5-md")])

FullArgs(schema) == [k \in DOMAIN schema |-> SampleValue(k, schema[k])]
Without(f, keys) == [k \in DOMAIN f \ keys |-> f[k]]
OptionalKeys(schema) == {k \in DOMAIN schema : schema[k].optional}
RequiredKeys(schema) == DOMAIN schema \ OptionalKeys(schema)

ModelArgs ==
  { [message |-> Str("Build a todo app")] @@ m @@ g :
      m \in {NoFields, [modelId |-> Str("v0-1.5-md")]},
      g \in {NoFields, [imageGenerations |-> Bool(TRUE)],
             [imageGenerations |-> Bool(FALSE)]} }

(* Page arguments for the tools whose limit and offset are numbers. *)
PageArgs ==
  { [limit |-> Num(l), offset |-> Num(o)] : l \in {-1, 0, 1, MaxItems + 1}, o \in {0, 1} }

(* Arguments with a field no schema declares. *)
UnknownArgs(schema) ==
  { a @@ [unknownField |-> Str("x")] :
      a \in {FullArgs(schema), Without(FullArgs(schema), OptionalKeys(schema))} }


(* Arguments with a field named as the parameter fetcher reads headers     *)
(* from, for one tool of each request method.                              *)
HeaderArgs(tool, schema) ==
  IF tool \in {"create_chat", "get_chat", "find_chats", "delete_chat"}
  THEN { FullArgs(schema)
           @@ [headers |-> Obj([Authorization |-> Str("Bearer key-X")])] }
  ELSE {}

(* The parameters whose values are of an enum: the enum itself, an array   *)
(* of it, or the object that has it as a field.                            *)
EnumKeys(schema) ==
  {k \in DOMAIN schema : schema[k].values # {}}

OutsideValue == "not-in-set"

EnumValue(spec, v) ==
  CASE spec.type = "array" -> Arr(<<Str(v)>>)
    [] spec.type = "object" -> Obj([modelId |-> Str(v)])
    [] OTHER -> Str(v)

(* Every value of every enum and one value outside it, in the place of the *)
(* parameter; for an array also a value outside after one inside.          *)
EnumArgs(schema) ==
  UNION { { [FullArgs(schema) EXCEPT ![k] = EnumValue(schema[k], v)] :
              v \in schema[k].values \cup {OutsideValue} }
          \cup (IF schema[k].type = "array"
                THEN { [FullArgs(schema) EXCEPT
                          ![k] = Arr(<<Str(CHOOSE x \in schema[k].values : TRUE),
                                       Str(OutsideValue)>>)] }
                ELSE {})
          : k \in EnumKeys(schema) }

ArgMenu(tool, schema) ==
  {FullArgs(schema), Without(FullArgs(schema), OptionalKeys(schema))}
  \cup {Without(FullArgs(schema), {k}) : k \in DOMAIN schema}
  \cup (IF tool = "create_chat" THEN ModelArgs ELSE {})
  \cup (IF "limit" \in DOMAIN schema /\ schema["limit"].type = "number"
        THEN PageArgs ELSE {})
  \cup UnknownArgs(schema) \cup EnumArgs(schema) \cup HeaderArgs(tool, schema)

UnknownTool == "no_such_tool"

SchemaOf(v, tool) ==
  IF tool \in ToolNames(v) THEN Descriptor(v, RegisterAll(v), tool).schema
  ELSE NoFields

(* The interleaved specification draws from two tools and two chats. *)
ConcTools == {"delete_chat", "get_chat"}
ConcArgs(tool) ==
  IF tool = "delete_chat"
  THEN {[chatId |-> Str("c1")], [chatId |-> Str("c2")]}
  ELSE {NoFields, [chatId |-> Str("c1")]}
ConcOutcomes == {NotFound404, Answer(200, "", Entity)}

Next ==
  \/ \E s \in Sessions, q \in Requests : Open(s, q, MaxInFlight)
  \/ \E s \in Sessions, q \in Requests, t \in ConcTools :
       \E a \in ConcArgs(t) : Receive(s, q, t, a, MaxInFlight)
  \/ \E c \in InFlight, o \in ConcOutcomes : Respond(c, o)
  \/ \E c \in InFlight : Retire(c)
  \/ \E s \in Sessions : Close(s)

Spec == Init /\ [][Next]_vars

(* One call at a time, over every tool of the deployed server. *)
ToolRequests == [path : {"/mcp", "/health"}, key : {"key-A", ""}]

(* Requests to every path the entry point tells apart, and to paths that   *)
(* differ from a routed one by a trailing slash or by case.                *)
RouteRequests == [path : Paths \cup {"/mcp/", "/MCP", "/"}, key : {"key-A", ""}]

NextTools ==
  \/ \E q \in RouteRequests : Open("s1", q, 1)
  \/ \E q \in RouteRequests, t \in ConcTools :
       \E a \in ConcArgs(t) : Receive("s1", q, t, a, 1)
  \/ \E q \in ToolRequests, t \in ToolNames(variant) \cup {UnknownTool} :
       \E a \in ArgMenu(t, SchemaOf(variant, t)) : Receive("s1", q, t, a, 1)
  \/ \E c \in InFlight, o \in OutcomeMenu : Respond(c, o)
  \/ \E c \in InFlight : Retire(c)
  \/ Close("s1")

SpecTools == Init /\ [][NextTools]_vars

(***************************************************************************)
(* The client of the first server on its own: its find methods are called  *)
(* with every parameter object of the menu, the call with no parameter     *)
(* object included.                                                        *)
(***************************************************************************)
FindMethods == {"chats.find", "rateLimits.find"}

FindParams ==
  {Undef, Obj(NoFields)}
  \cup { Obj([limit |-> l, offset |-> o, isFavorite |-> f, scope |-> s]) :
           l \in {Undef, Null, Str("1")}, o \in {Undef, Str("0")},
           f \in {Undef, Str("true")}, s \in {Undef, Str("chat")} }

(* The context of a call of a client method that no tool call made. *)
ClientContext(method, p) ==
  [sess |-> "", key |-> env, path |-> "", route |-> "client", pc |-> "returned",
   http |-> 0, body |-> "", tool |-> "", args |-> NoFields, frame |-> NoFields,
   upstream |-> <<ClientCall("v1", env, method, p)>>,
   outcome |-> NoOutcome, result |-> NoResult, trace |-> <<>>]

InitClient ==
  /\ variant = "v1"
  /\ env \in EnvKeys
  /\ agents = [s \in Sessions |-> Unstarted]
  /\ calls = EmptyBag

(* createV0Client(env.V0_API_KEY).<method>(p), up to fetcher's fetch. *)
CallClient(method, p) ==
  /\ BagCardinality(calls) < MaxInFlight
  /\ calls' = calls (+) SetToBag({ClientContext(method, p)})
  /\ UNCHANGED <<variant, env, agents>>

NextClient ==
  \/ \E m \in FindMethods, p \in FindParams : CallClient(m, p)
  \/ \E c \in InFlight : Retire(c)

SpecClient == InitClient /\ [][NextClient]_vars

(***************************************************************************)
(* Properties.                                                             *)
(***************************************************************************)
Returned(c) == c.pc = "returned"
Entered(c) == c.upstream # <<>>
Text(c) == c.result.envelope.content[1].text
OwnDescriptor(c) == Descriptor(variant, RegisterAll(variant), c.tool)
IsPrefix(s, t) == Len(s) <= Len(t) /\ SubSeq(t, 1, Len(s)) = s
Failed(c) == c.outcome.kind = "network" \/ (c.outcome.kind = "response" /\ ~ResOk(c.outcome))

(* C1: for every tool and every outcome of its upstream call, a returned  *)
(* value or a failure, the handler produces one envelope whose blocks are *)
(* all of kind "text"; a failure is a text block and is never raised out  *)
(* of the handler.                                                         *)
C1_OneTextEnvelope ==
  \A c \in InFlight :
    Entered(c) /\ Returned(c) =>
      /\ c.result.kind = "envelope"
      /\ ~c.result.raised
      /\ Len(c.result.envelope.content) = 1
      /\ \A i \in 1..Len(c.result.envelope.content) :
           c.result.envelope.content[i].type = "text"

C1_Witness ==
  \E c \in InFlight :
    /\ Returned(c) /\ c.outcome = NetworkError
    /\ c.result.kind = "envelope"
    /\ Contains(Text(c), <<NetworkError.text>>)

(* C2 as amended: in the server that reads the key from the request (v2), *)
(* a request without a key is answered 401 before any dispatch, and no    *)
(* session is ever opened without a key; the server that reads the key    *)
(* from its environment (v1) routes by path alone.                         *)
C2_KeylessRejectedWhereChecked ==
  /\ \A c \in InFlight :
       /\ variant = "v2" /\ c.key = "" =>
            /\ c.pc = "rejected" /\ c.http = 401
            /\ c.upstream = <<>> /\ c.result = NoResult /\ c.trace = <<"RECEIVED">>
       /\ variant = "v1" /\ c.pc = "rejected" => c.http = 404
  /\ \A s \in Sessions : variant = "v2" /\ agents[s].started => agents[s].props # ""

C2_Witness ==
  \E c \in InFlight : variant = "v2" /\ c.key = "" /\ c.pc = "rejected" /\ c.http = 401

(* C2 as stated: a request that carries no credential is rejected with a  *)
(* 401 before any dispatch.                                                *)
C2_KeylessAlwaysRejected ==
  \A c \in InFlight : c.key = "" => c.pc = "rejected" /\ c.http = 401 /\ c.upstream = <<>>

(* C3: create_chat gives chats.create the nested object {modelId,         *)
(* imageGenerations} when modelId is supplied, and no modelConfiguration  *)
(* object at all (not null, not empty; no such key in the request body)   *)
(* when modelId is omitted, whatever imageGenerations is.                  *)
C3_ModelConfiguration ==
  \A c \in InFlight :
    c.tool = "create_chat" /\ Entered(c) =>
      LET sent == c.upstream[1].params.o
          wire == c.upstream[1].wire
      IN  IF "modelId" \in DOMAIN c.args
          THEN /\ sent.modelConfiguration =
                    Obj([modelId |-> c.args.modelId,
                         imageGenerations |->
                           IF "imageGenerations" \in DOMAIN c.args
                           THEN c.args.imageGenerations ELSE Bool(FALSE)])
               /\ \A i \in 1..Len(wire) :
                    wire[i].body.o.modelConfiguration = sent.modelConfiguration
          ELSE /\ sent.modelConfiguration = Undef
               /\ \A i \in 1..Len(wire) :
                    "modelConfiguration" \notin DOMAIN wire[i].body.o

C3_Witness ==
  \E c \in InFlight :
    /\ c.tool = "create_chat" /\ Entered(c) /\ variant = "v1" /\ c.upstream[1].wire # <<>>
    /\ "modelId" \notin DOMAIN c.args
    /\ "imageGenerations" \in DOMAIN c.args /\ c.args.imageGenerations = Bool(TRUE)

(* C4 as amended: a call that passes validation makes exactly one call of *)
(* a client method, also when that call fails; the built-in client sends  *)
(* exactly one network request for it when its key is not empty and none  *)
(* when its key is empty.  Nothing is retried.                             *)
C4_OneUpstreamCall ==
  \A c \in InFlight :
    c.pc \in {"awaiting", "returned"} /\ c.result.kind \notin {"not_found", "invalid"} =>
      /\ Len(c.upstream) = 1
      /\ variant = "v1" => Len(c.upstream[1].wire) = IF env = "" THEN 0 ELSE 1

C4_Witness ==
  \E c \in InFlight :
    /\ Returned(c) /\ Failed(c) /\ variant = "v1"
    /\ Len(c.upstream) = 1 /\ Len(c.upstream[1].wire) = 1

(* C4 as stated: a call that passes validation issues exactly one network *)
(* request in the built-in client.                                         *)
C4_AlwaysOneRequest ==
  \A c \in InFlight :
    c.pc \in {"awaiting", "returned"} /\ c.result.kind \notin {"not_found", "invalid"} =>
      /\ Len(c.upstream) = 1
      /\ variant = "v1" => Len(c.upstream[1].wire) = 1

(* C5: when the platform answers with a non-success status the handler    *)
(* returns normally; the text begins with the tool's error phrase and,    *)
(* with the built-in client, holds the status code and the response text  *)
(* as they came.                                                           *)
C5_FailureTextVerbatim ==
  \A c \in InFlight :
    Returned(c) /\ c.outcome.kind = "response" /\ ~ResOk(c.outcome) =>
      /\ c.result.kind = "envelope" /\ ~c.result.raised
      /\ variant = "v1" =>
           /\ StartsWith(Text(c), <<OwnDescriptor(c).errorPhrase>>)
           /\ Contains(Text(c), <<ToString(c.outcome.status), ": ", c.outcome.text>>)

C5_Witness ==
  \E c \in InFlight :
    /\ variant = "v1" /\ Returned(c) /\ c.tool = "delete_chat"
    /\ c.outcome = NotFound404
    /\ Text(c) = <<"Error deleting chat: ", "HTTP ", "404", ": ", "Not Found">>

(* C6: a call that lacks a required field gets an answer that names the   *)
(* field, and no client method is called for it.                           *)
C6_MissingRequiredField ==
  \A c \in InFlight :
    c.pc \in {"awaiting", "returned"} /\ c.tool \in ToolNames(variant) =>
      \A k \in DOMAIN OwnDescriptor(c).schema :
        ~OwnDescriptor(c).schema[k].optional /\ k \notin DOMAIN c.args =>
          /\ Returned(c) /\ c.result.kind = "invalid"
          /\ k \in c.result.fields
          /\ c.upstream = <<>>

C6_Witness ==
  \E c \in InFlight :
    /\ Returned(c) /\ c.tool = "get_chat" /\ "chatId" \notin DOMAIN c.args
    /\ c.result.kind = "invalid" /\ c.result.fields = {"chatId"} /\ c.upstream = <<>>

(* C7: within one call the stages are entered in the order received (the  *)
(* key is read), lookup, validation, execution, formatting, return; a     *)
(* failed lookup or a failed validation goes straight to formatting; no   *)
(* stage is entered twice.                                                 *)
FullPath == <<"RECEIVED", "LOOKED_UP", "VALIDATED", "EXECUTED", "FORMATTED", "RETURNED">>
LookupFailedPath == <<"RECEIVED", "LOOKED_UP", "FORMATTED", "RETURNED">>
ValidationFailedPath == <<"RECEIVED", "LOOKED_UP", "VALIDATED", "FORMATTED", "RETURNED">>

C9_NoSharedState ==
  \A c \in InFlight :
    /\ Returned(c) /\ Entered(c) =>
         c.result =
           Handled(HandlerResult(variant, OwnDescriptor(c),
                                 Parsed(OwnDescriptor(c).schema, c.args),
                                 IF c.outcome = NoOutcome THEN KeyRequired
                                 ELSE Settled(variant, c.outcome)))
    /\ c.pc # "rejected" => agents[c.sess] = AgentInit(variant, agents[c.sess].props)

C9_Witness ==
  \E c, d \in InFlight :
    /\ c.sess = d.sess /\ c.tool = "delete_chat" /\ d.tool = "delete_chat"
    /\ Entered(c) /\ Entered(d)
    /\ Returned(c) /\ Failed(c) /\ c.args.chatId = Str("c1")
    /\ Returned(d) /\ ~Failed(d) /\ d.args.chatId = Str("c2")
    /\ Contains(Text(d), <<"c2">>)

(* C10: no two registrations of init use the same name, and while an      *)
(* agent lives its registry is the one init built: every lookup of a      *)
(* registered name finds the descriptor registered under that name.       *)
C10_RegistryFixed ==
  /\ Cardinality(ToolNames(variant)) = Len(Tools(variant))
  /\ \A s \in Sessions :
       agents[s].started =>
         /\ agents[s].registry = RegisterAll(variant)
         /\ DOMAIN agents[s].registry = ToolNames(variant)
         /\ \A n \in DOMAIN agents[s].registry :
              Descriptor(variant, agents[s].registry, n).name = n

C10_Witness ==
  \E s \in Sessions :
    /\ agents[s].started
    /\ \E c \in InFlight : c.sess = s /\ Returned(c) /\ Failed(c)
    /\ \E c \in InFlight : c.sess = s /\ c.pc = "awaiting"

Completion(c) ==
  IF c.outcome = NoOutcome THEN KeyRequired ELSE Settled(variant, c.outcome)
Caught(c) == TryBlock(variant, c.tool, c.frame, Completion(c)).threw

C13_FormattingTotal ==
  \A c \in InFlight :
    Returned(c) /\ Entered(c) =>
      /\ c.result.kind = "envelope" /\ ~c.result.raised
      /\ c.result.envelope.content # <<>>
      /\ c.result.envelope.content[1].type = "text"
      /\ Text(c) # <<>>
      /\ c.outcome.kind = "thrown" =>
           Text(c) = <<OwnDescriptor(c).errorPhrase>> \o ToStr(c.outcome.json)
      /\ c.outcome.kind = "response" /\ ResOk(c.outcome) /\ Caught(c) =>
           StartsWith(Text(c), <<OwnDescriptor(c).errorPhrase>>)

C13_Witness ==
  \E c \in InFlight :
    /\ Returned(c) /\ c.tool = "find_chats" /\ c.outcome = Rejection(Undef)
    /\ Text(c) = <<"Error finding chats: ", "undefined">>

SentValue(c, k) ==
  LET params == c.upstream[1].params
  IN  IF c.tool = "create_chat" /\ k \in {"modelId", "imageGenerations"}
      THEN Get(Get(params, "modelConfiguration"), k)
      ELSE Get(params, k)

Omitted(c) ==
  {k \in DOMAIN OwnDescriptor(c).schema :
     OwnDescriptor(c).schema[k].optional /\ k \notin DOMAIN c.args}

Accepted(c) ==
  /\ c.pc \in {"awaiting", "returned"} /\ c.tool \in ToolNames(variant)
  /\ Issues(OwnDescriptor(c).schema, c.args) = {}

(* The values the handlers put in the place of an omitted parameter. *)
SentWhenOmitted(c, k) ==
  CASE variant = "v1" /\ c.tool = "find_chats" /\ k = "limit" -> Str("10")
    [] variant = "v1" /\ c.tool = "find_chats" /\ k = "offset" -> Str("0")
    [] c.tool = "create_chat" /\ k = "imageGenerations" /\ "modelId" \in DOMAIN c.args ->
         Bool(FALSE)
    [] OTHER -> Undef

(* C15 as amended: a call that omits optional parameters is accepted, and *)
(* an omitted parameter is absent from the upstream call, except that the *)
(* v1 find_chats sends limit "10" and offset "0" for an omitted limit and *)
(* offset, and create_chat sends imageGenerations false when modelId is   *)
(* supplied without it.                                                    *)
C15_OmittedAbsentOrDefault ==
  \A c \in InFlight :
    Accepted(c) =>
      /\ Entered(c)
      /\ \A k \in Omitted(c) :
           /\ SentValue(c, k) = SentWhenOmitted(c, k)
           /\ SentWhenOmitted(c, k) = Undef =>
                \A i \in 1..Len(c.upstream[1].wire) :
                  c.upstream[1].wire[i].body.t = "object" =>
                    k \notin DOMAIN c.upstream[1].wire[i].body.o

C15_Witness ==
  \E c \in InFlight :
    /\ variant = "v1" /\ c.tool = "find_chats" /\ c.args = NoFields /\ Entered(c)
    /\ c.upstream[1].params = Obj([limit |-> Str("10"), offset |-> Str("0")])
    /\ c.upstream[1].wire # <<>>
    /\ Contains(c.upstream[1].wire[1].url, <<"limit", "=", "10">>)

(* C15 as stated: an omitted optional parameter is absent from what is    *)
(* sent upstream; no handler puts a default in its place.                  *)
C15_OmittedStaysAbsent ==
  \A c \in InFlight :
    Accepted(c) => Entered(c) /\ \A k \in Omitted(c) : SentValue(c, k) = Undef

(***************************************************************************)
(* Pagination of the find tools.                                           *)
(***************************************************************************)
PaginatedTools ==
  {"find_chats", "find_projects", "find_chat_messages", "find_chat_versions"}

PaginationKeys == {"limit", "offset", "cursor"}

Supplied(c) == PaginationKeys \cap DOMAIN c.args

(* The item lines of the text of call c. *)
ItemLines(c) == Cardinality({i \in 1..Len(Text(c)) : Text(c)[i] = "- "})

(* The call was answered with a list, and its text is a listing. *)
Listed(c) ==
  /\ Returned(c) /\ Accepted(c) /\ ~Caught(c)
  /\ c.outcome.kind = "response" /\ c.outcome.json.t = "object"
  /\ Get(c.outcome.json, "data").t = "array"

Upstream(c) == Data(c.outcome.json)

(* A find call that reached its handler. *)
FindCall(c) == Accepted(c) /\ c.tool \in PaginatedTools /\ Len(c.upstream) >= 1

ListingTools ==
  {"find_chats", "find_chat_messages", "find_chat_versions", "find_projects",
   "find_deployments", "find_vercel_projects", "find_hooks"}

(* A listing tool answered and its handler rendered the answer. *)
ListingShown(c) ==
  /\ Returned(c) /\ Accepted(c) /\ c.tool \in ListingTools
  /\ c.outcome.kind = "response" /\ ~Caught(c)

(* The number the text gives after "Found". *)
FoundCount(c) == Text(c)[2]

(* The part of the upstream list whose items the handler renders. *)
Window(c) ==
  LET limit == IF "limit" \in DOMAIN c.args THEN c.args["limit"].n ELSE DefaultLimit
      offset == IF "offset" \in DOMAIN c.args THEN c.args["offset"].n ELSE DefaultOffset
  IN  IF variant = "v1" /\ c.tool = "find_chats" THEN Slice(Upstream(c), 0, limit)
      ELSE IF variant = "v1" /\ c.tool = "find_projects"
      THEN Slice(Upstream(c), offset, offset + limit)
      ELSE Upstream(c)

(* C17 as amended: the success text of a listing tool starts with "Found", *)
(* the number after it is the length of the list upstream returned, and    *)
(* there is one line per rendered item.  In the second server every item   *)
(* is rendered, so the number equals the lines.  In the first server the   *)
(* lines are those of data.slice(0, limit) for find_chats and of           *)
(* data.slice(offset, offset + limit) for find_projects, so the number     *)
(* equals the lines only when that slice is the whole list.                *)
C17_CountOfUpstreamList ==
  \A c \in DOMAIN calls :
    ListingShown(c) =>
      /\ Text(c)[1] = "Found "
      /\ FoundCount(c) = ToString(Len(Upstream(c)))
      /\ ItemLines(c) = Len(Window(c))
      /\ ItemLines(c) <= Len(Upstream(c))
      /\ variant = "v2" => FoundCount(c) = ToString(ItemLines(c))

(* The first server's find_chats, limit 1, upstream list of two: the text  *)
(* says "Found 2" and has one item line.                                   *)
C17_Witness ==
  \E c \in DOMAIN calls :
    /\ variant = "v1" /\ c.tool = "find_chats" /\ ListingShown(c)
    /\ "limit" \in DOMAIN c.args /\ c.args["limit"] = Num(1)
    /\ Len(Upstream(c)) = 2
    /\ FoundCount(c) = "2" /\ ItemLines(c) = 1

(* C17 as stated: the number after "Found" is the number of item lines.    *)
C17_CountEqualsLines ==
  \A c \in DOMAIN calls :
    ListingShown(c) => FoundCount(c) = ToString(ItemLines(c))

(***************************************************************************)
(* Identifiers in the text of the creating tools.                          *)
(***************************************************************************)
CreatingTools ==
  {"create_chat", "initialize_chat", "fork_chat", "send_message",
   "create_project", "create_deployment", "create_vercel_project", "create_hook"}

(* A creating tool answered and its handler rendered the answer. *)
Created(c) ==
  /\ Returned(c) /\ Accepted(c) /\ c.tool \in CreatingTools
  /\ c.outcome.kind = "response" /\ ~Caught(c)

(* The field k of what upstream returned is a string. *)
ReturnedString(c, k) == Get(c.outcome.json, k).t = "string"

(* C18: the success text of each creating tool contains, unchanged, the id *)
(* upstream returned, and the text of create_chat also contains the url    *)
(* upstream returned.                                                      *)
C18_IdentifiersInText ==
  \A c \in DOMAIN calls :
    Created(c) =>
      /\ ReturnedString(c, "id") =>
           Contains(Text(c), <<Get(c.outcome.json, "id").s>>)
      /\ c.tool = "create_chat" /\ ReturnedString(c, "url") =>
           Contains(Text(c), <<Get(c.outcome.json, "url").s>>)

(* create_chat answered with a chat: its id and its url are in the text.   *)
C18_Witness ==
  \E c \in DOMAIN calls :
    /\ c.tool = "create_chat" /\ Created(c) /\ c.outcome.json = Entity
    /\ Text(c) = <<"Chat created successfully!\n\nChat URL: ",
                   "https://v0.dev/chat/c1", "\nChat ID: ", "c1">>

(***************************************************************************)
(* Fields the schema does not declare.                                     *)
(***************************************************************************)
Undeclared(c) == DOMAIN c.args \ DOMAIN OwnDescriptor(c).schema

Declared(c) == [k \in DOMAIN c.args \cap DOMAIN OwnDescriptor(c).schema |-> c.args[k]]

(* The keys of everything the upstream calls of c carry: the parameters    *)
(* given to the client method and, in the first server, the body and the   *)
(* query of the request on the wire.                                       *)
KeysOf(v) == IF v.t = "object" THEN DOMAIN v.o ELSE {}

SentKeys(c) ==
  UNION { KeysOf(c.upstream[i].params)
          \cup UNION { KeysOf(c.upstream[i].wire[j].body) :
                         j \in 1..Len(c.upstream[i].wire) }
          : i \in 1..Len(c.upstream) }

SentOnWire(c, piece) ==
  \E i \in 1..Len(c.upstream) : \E j \in 1..Len(c.upstream[i].wire) :
    \E n \in 1..Len(c.upstream[i].wire[j].url) : c.upstream[i].wire[j].url[n] = piece

(* C19: a call whose arguments carry a field its tool's schema does not    *)
(* declare is not rejected for it: when the declared fields are valid the  *)
(* handler runs on exactly the declared fields, and the undeclared field   *)
(* is in nothing it sends upstream.                                        *)
C19_UndeclaredFieldsDropped ==
  \A c \in DOMAIN calls :
    c.pc \in {"awaiting", "returned"} /\ c.tool \in ToolNames(variant)
    /\ Undeclared(c) # {} =>
      /\ Issues(OwnDescriptor(c).schema, Declared(c)) = {} =>
           /\ c.result.kind # "invalid"
           /\ Entered(c)
           /\ c.frame = Declared(c)
           /\ Len(c.upstream) = 1
      /\ SentKeys(c) \cap Undeclared(c) = {}
      /\ \A k \in Undeclared(c) : ~SentOnWire(c, k)

(* create_project called with name and an undeclared field: the project is *)
(* created and the text is that of the call without the field.             *)
C19_Witness ==
  \E c \in DOMAIN calls :
    /\ c.tool = "create_project" /\ Returned(c)
    /\ DOMAIN c.args = {"name", "unknownField"}
    /\ c.frame = [name |-> c.args["name"]]
    /\ c.outcome = Answer(200, "", Entity)
    /\ StartsWith(Text(c), <<"Project created successfully!\n\nID: ", "c1">>)
    /\ "unknownField" \notin SentKeys(c)

(***************************************************************************)
(* Parameters of an enum type.                                             *)
(***************************************************************************)
(* The enum values the argument k of call c carries. *)
EnumValuesOf(c, k) ==
  LET v == c.args[k]
  IN  IF v.t = "string" THEN {v.s}
      ELSE IF v.t = "array" THEN {v.a[i].s : i \in 1..Len(v.a)}
      ELSE {Get(v, "modelId").s}

EnumSupplied(c) == EnumKeys(OwnDescriptor(c).schema) \cap DOMAIN c.args

OutsideSet(c, k) == ~(EnumValuesOf(c, k) \subseteq OwnDescriptor(c).schema[k].values)

(* C20: a call that gives an enum-typed parameter (chatPrivacy, modelId,   *)
(* the events of a hook) a value outside the declared set fails validation *)
(* and makes no upstream call; a call whose enum-typed parameters are all  *)
(* inside their sets, and otherwise valid, reaches its handler, and the    *)
(* value is in the upstream call unchanged.                                *)
C20_EnumValidated ==
  \A c \in DOMAIN calls :
    c.pc \in {"awaiting", "returned"} /\ c.tool \in ToolNames(variant)
    /\ EnumSupplied(c) # {} =>
      IF \E k \in EnumSupplied(c) : OutsideSet(c, k)
      THEN /\ c.pc = "returned" /\ c.result.kind = "invalid"
           /\ c.upstream = <<>> /\ ~Entered(c)
      ELSE Issues(OwnDescriptor(c).schema, c.args) = {} =>
             /\ c.result.kind # "invalid" /\ Entered(c)
             /\ Len(c.upstream) = 1
             /\ \A k \in EnumSupplied(c) : SentValue(c, k) = c.args[k]

(* create_chat with a chatPrivacy outside {"private", "public"} is refused *)
(* before any upstream call.                                               *)
C20_Witness ==
  \E c \in DOMAIN calls :
    /\ c.tool = "create_chat" /\ c.pc = "returned"
    /\ "chatPrivacy" \in DOMAIN c.args /\ c.args["chatPrivacy"] = Str(OutsideValue)
    /\ c.result.kind = "invalid" /\ c.upstream = <<>>

(***************************************************************************)
(* default.fetch: the paths.                                               *)
(***************************************************************************)
SsePaths == {"/sse", "/sse/message"}

(* The entry point answers for the missing key before it looks at the path. *)
KeyChecked(c) == variant = "v2" /\ c.key = ""

(* The request of c was answered by the entry point itself: no agent, no   *)
(* tool, no handler, no upstream call.                                     *)
NoHandler(c) ==
  /\ c.pc = "rejected" /\ c.route = "none" /\ c.sess = "" /\ c.tool = ""
  /\ c.trace = <<"RECEIVED">> /\ c.upstream = <<>> /\ c.result = NoResult

(* C21 as amended: a request that passes the key check (the first server   *)
(* has none, the second wants a non-empty key parameter) is served by the  *)
(* MCP endpoint when its path is exactly /mcp, by the SSE endpoint when it *)
(* is exactly /sse or /sse/message, and gets 404 "Not found" and reaches   *)
(* no handler for any other path.  In the second server a request without  *)
(* a key gets 401 "Missing key query parameter" whatever its path.         *)
C21_RoutedByPath ==
  \A c \in DOMAIN calls :
    IF KeyChecked(c)
    THEN NoHandler(c) /\ c.http = 401 /\ c.body = "Missing key query parameter"
    ELSE /\ c.path = "/mcp" => c.route = "mcp" /\ c.pc # "rejected" /\ c.sess # ""
         /\ c.path \in SsePaths => c.route = "sse" /\ c.pc # "rejected" /\ c.sess # ""
         /\ c.path \notin SsePaths \cup {"/mcp"} =>
              NoHandler(c) /\ c.http = 404 /\ c.body = "Not found"

(* A request to /mcp/ with a key: 404 "Not found", and no handler.          *)
C21_Witness ==
  \E c \in DOMAIN calls :
    /\ c.path = "/mcp/" /\ c.key = "key-A"
    /\ NoHandler(c) /\ c.http = 404 /\ c.body = "Not found"

(* C21 as stated: the path alone decides.                                  *)
C21_PathAloneDecides ==
  \A c \in DOMAIN calls :
    /\ c.path = "/mcp" => c.route = "mcp" /\ c.pc # "rejected"
    /\ c.path \in SsePaths => c.route = "sse" /\ c.pc # "rejected"
    /\ c.path \notin SsePaths \cup {"/mcp"} =>
         NoHandler(c) /\ c.http = 404 /\ c.body = "Not found"

(***************************************************************************)
(* The two servers' tools side by side.                                    *)
(***************************************************************************)
(* The first server let the call through to its handler. *)
AcceptedByV1(c) ==
  /\ variant = "v1" /\ c.pc \in {"awaiting", "returned"}
  /\ c.result.kind \notin {"not_found", "invalid"}

(* The second server has the tool and declares the parameter k as the      *)
(* first does.                                                             *)
SameParameter(tool, k) ==
  /\ k \in DOMAIN SchemaOf("v2", tool)
  /\ SchemaOf("v2", tool)[k].type = SchemaOf("v1", tool)[k].type
  /\ SchemaOf("v2", tool)[k].optional = SchemaOf("v1", tool)[k].optional
  /\ SchemaOf("v2", tool)[k].values = SchemaOf("v1", tool)[k].values

(* C22: every call the first server accepts is accepted by the second,     *)
(* under the same tool name, with the same parameter names, types and      *)
(* required or optional status.                                            *)
C22_V1CallsAcceptedByV2 ==
  \A c \in DOMAIN calls :
    AcceptedByV1(c) =>
      /\ c.tool \in ToolNames("v2")
      /\ Issues(SchemaOf("v2", c.tool), c.args) = {}
      /\ \A k \in DOMAIN SchemaOf("v1", c.tool) : SameParameter(c.tool, k)

(***************************************************************************)
(* The window of the first server's find tools.                            *)
(***************************************************************************)
(* The ids of the item lines of the text, in the order of the lines. *)
RenderedIds(c) ==
  LET t == Text(c)
      at == SelectSeq([i \in 1..Len(t) |-> i], LAMBDA i : t[i] = "- ")
  IN  [j \in 1..Len(at) |-> t[at[j] + 1]]

LimitOf(c) == IF "limit" \in DOMAIN c.args THEN c.args["limit"].n ELSE DefaultLimit

(* The offset the handler applies itself: find_chats hands its offset to   *)
(* the upstream call and applies none.                                     *)
OffsetOf(c) ==
  IF c.tool = "find_projects" /\ "offset" \in DOMAIN c.args
  THEN c.args["offset"].n ELSE DefaultOffset

(* The ids of the upstream items at the positions first .. last that       *)
(* exist, counted from 0, in upstream order.                               *)
IdsAt(items, first, last) ==
  LET from == IF first < 0 THEN 0 ELSE first
      to == IF last > Len(items) - 1 THEN Len(items) - 1 ELSE last
  IN  IF to < from THEN <<>>
      ELSE [j \in 1..(to - from + 1) |-> Get(items[from + j], "id").s]

V1Listed(c) ==
  variant = "v1" /\ c.tool \in {"find_chats", "find_projects"} /\ ListingShown(c)

NetworkRequests(c) ==
  UNION { {<<i, j>> : j \in 1..Len(c.upstream[i].wire)} : i \in 1..Len(c.upstream) }

Keyless == variant = "v1" /\ env = ""

(* C24: in the first server with an empty key every tool call that runs    *)
(* its handler returns, without waiting for anything, the error envelope   *)
(* of its tool with the message "V0_API_KEY is required", and no call puts *)
(* a request on the network.                                               *)
C24_KeylessClientRefuses ==
  \A c \in DOMAIN calls :
    Keyless =>
      /\ NetworkRequests(c) = {}
      /\ c.pc # "awaiting"
      /\ Accepted(c) =>
           /\ Returned(c) /\ Entered(c) /\ c.result.kind = "envelope"
           /\ \A i \in 1..Len(c.upstream) : c.upstream[i].apiKey = ""
           /\ Text(c) = <<OwnDescriptor(c).errorPhrase, "V0_API_KEY is required">>

(* get_chat in a deployment without a key.                                 *)
C24_Witness ==
  \E c \in DOMAIN calls :
    /\ Keyless /\ c.tool = "get_chat" /\ Returned(c) /\ Accepted(c)
    /\ Text(c) = <<"Error retrieving chat: ", "V0_API_KEY is required">>
    /\ NetworkRequests(c) = {}

(***************************************************************************)
(* delete_chat of the first server.                                        *)
(***************************************************************************)
DeleteAnswered(c) ==
  /\ variant = "v1" /\ c.tool = "delete_chat" /\ Returned(c) /\ Accepted(c)
  /\ c.outcome # NoOutcome

DeletedText(c) == <<"Chat ">> \o ToStr(c.args["chatId"]) \o <<" deleted successfully!">>

SuccessStatus(c) == c.outcome.kind = "response" /\ ResOk(c.outcome)

(* C25: delete_chat returns "Chat <chatId> deleted successfully!" exactly   *)
(* when the DELETE request was answered with a success status, whatever    *)
(* the body of the answer.                                                 *)
C25_DeletedIffSuccessStatus ==
  \A c \in DOMAIN calls :
    DeleteAnswered(c) => (Text(c) = DeletedText(c) <=> SuccessStatus(c))

(***************************************************************************)
(* The placeholder of a listing.                                           *)
(***************************************************************************)
Placeholders ==
  {"No chats found", "No messages found", "No versions found", "No projects found",
   "No deployments found", "No Vercel projects found", "No hooks found"}

ShowsPlaceholder(c) == \E i \in 1..Len(Text(c)) : Text(c)[i] \in Placeholders

(* C26: a listing tool renders its placeholder exactly when the upstream   *)
(* answer has no items, be the data list absent or empty; otherwise it     *)
(* renders no placeholder and one line per item it shows.                  *)
C26_PlaceholderWhenNoItems ==
  \A c \in DOMAIN calls :
    ListingShown(c) =>
      /\ ShowsPlaceholder(c) <=> Len(Upstream(c)) = 0
      /\ Len(Upstream(c)) > 0 => ItemLines(c) = Len(Window(c))

(***************************************************************************)
(* The requests of the first server's client.                              *)
(***************************************************************************)
(* The requests the client of call c put on the network, each with the key *)
(* of the client that sent it.                                             *)
Wire(c) ==
  { [key |-> c.upstream[i].apiKey, request |-> c.upstream[i].wire[j]] :
      <<i, j>> \in NetworkRequests(c) }

(* C27: every request the first server's client sends carries the header   *)
(* Authorization: Bearer <apiKey> with the key the client was created      *)
(* with, whatever the client method and whatever the arguments of the tool *)
(* call, an argument named headers included.                               *)
C27_BearerOfTheClient ==
  \A c \in DOMAIN calls :
    variant = "v1" =>
      \A w \in Wire(c) :
        /\ "Authorization" \in DOMAIN w.request.headers
        /\ w.request.headers["Authorization"] = <<"Bearer ", env>>
        /\ w.key = env /\ env # ""

(* create_chat called with an argument headers: the request carries the    *)
(* key of the deployment.                                                  *)
C27_Witness ==
  \E c \in DOMAIN calls :
    /\ variant = "v1" /\ c.tool = "create_chat" /\ "headers" \in DOMAIN c.args
    /\ \E w \in Wire(c) :
         /\ w.request.method = "POST"
         /\ w.request.headers["Authorization"] = <<"Bearer ", "key-E">>

(* The request carries a body; it declares it as JSON. *)
HasBody(w) == w.request.body # Undef
DeclaresJson(w) ==
  /\ "ContentType" \in DOMAIN w.request.headers
  /\ w.request.headers["ContentType"] = <<"application/json">>

(* C28: a request of the first server's client has a JSON body and the     *)
(* header Content-Type: application/json exactly when its method is not    *)
(* GET and the client method supplied a body, which the POST methods do    *)
(* and no other: GET and DELETE requests carry neither.                    *)
C28_BodyAndContentType ==
  \A c \in DOMAIN calls :
    variant = "v1" =>
      \A w \in Wire(c) :
        /\ w.request.method \in {"GET", "POST", "DELETE"}
        /\ HasBody(w) <=> "ContentType" \in DOMAIN w.request.headers
        /\ HasBody(w) <=> w.request.method = "POST"
        /\ HasBody(w) => DeclaresJson(w) /\ w.request.body.t = "object"
        /\ DOMAIN w.request.headers \subseteq {"Authorization", "ContentType"}

(* The DELETE request of delete_chat: no body, no Content-Type.            *)
C28_Witness ==
  \E c \in DOMAIN calls :
    /\ variant = "v1" /\ c.tool = "delete_chat"
    /\ \E w \in Wire(c) :
         /\ w.request.method = "DELETE" /\ ~HasBody(w)
         /\ DOMAIN w.request.headers = {"Authorization"}

(***************************************************************************)
(* The query string of the first server's find methods.                    *)
(***************************************************************************)
(* The parameters a find method reads from its parameter object. *)
QueryParameters(method) ==
  IF method = "chats.find" THEN {"limit", "offset", "isFavorite"}
  ELSE IF method = "rateLimits.find" THEN {"scope"}
  ELSE {}

(* Those of them whose value is not undefined; none without an object. *)
DefinedParameters(method, p) ==
  IF p.t = "object"
  THEN {k \in QueryParameters(method) : k \in DOMAIN p.o /\ p.o[k].t # "undefined"}
  ELSE {}

(* The name=value pairs of the query string of a URL, and whether the URL  *)
(* has a query string at all.                                              *)
QueryPairs(url) ==
  { <<url[i - 1], url[i + 1]>> : i \in {j \in 2..(Len(url) - 1) : url[j] = "="} }

HasQuery(url) == \E i \in 1..Len(url) : url[i] = "?"

FindRequests(c) ==
  { [method |-> c.upstream[i].method, params |-> c.upstream[i].params,
     url |-> c.upstream[i].wire[j].url] :
      <<i, j>> \in {x \in NetworkRequests(c) : c.upstream[x[1]].method \in FindMethods} }

(* C29: chats.find and rateLimits.find put into the query string exactly   *)
(* the parameters whose value is not undefined (limit, offset, isFavorite; *)
(* scope), each once with its value, and add no query string at all when   *)
(* none is defined or no parameter object is given.                        *)
C29_QueryOfDefinedParameters ==
  \A c \in DOMAIN calls :
    \A r \in FindRequests(c) :
      LET defined == DefinedParameters(r.method, r.params)
      IN  /\ QueryPairs(r.url) =
               { <<k, ToStr(r.params.o[k])[1]>> : k \in defined }
          /\ HasQuery(r.url) <=> defined # {}
          /\ defined = {} => Len(r.url) = 2
          /\ defined # {} => Len(r.url) = 2 + 4 * Cardinality(defined)

(* chats.find({ limit: "1", offset: undefined, isFavorite: "true" }) asks   *)
(* for /chats?limit=1&isFavorite=true.                                      *)
C29_Witness ==
  \E c \in DOMAIN calls : \E r \in FindRequests(c) :
    /\ r.method = "chats.find"
    /\ r.params = Obj([limit |-> Str("1"), offset |-> Undef,
                       isFavorite |-> Str("true"), scope |-> Undef])
    /\ r.url = <<BaseUrl, "/chats", "?", "limit", "=", "1", "&",
                 "isFavorite", "=", "true">>
====
